---- MODULE Spec2Model ----
(***************************************************************************)
(* CampusCore-API: the grade records of a student (upsert / remove by      *)
(* subject, aggregate reads) and the destructive student operations        *)
(* (single and bulk deletion behind the enrollment guard), modelled as a   *)
(* state machine over the persisted Student and Enrollment collections.    *)
(*                                                                         *)
(* Every request handler is one action: the route's middleware chain, the  *)
(* handler body and its persistence calls.  `last` records the request     *)
(* that was served and the response that was sent.                         *)
(***************************************************************************)
EXTENDS Integers, Sequences, FiniteSets, TLC

VARIABLES
    students,      \* the Student collection: _id -> document
    enrollments,   \* the Enrollment collection: a set of documents
    nextOid,       \* the next ObjectId the driver hands out
    last,          \* the request served last and its response
    calls,         \* the calls in flight: call -> its position and what it holds
    versions       \* the version key (__v) of each stored student document

vars == <<students, enrollments, nextOid, last, calls, versions>>

(***************************************************************************)
(* Bounds of the model.                                                    *)
(***************************************************************************)
\* ObjectIds ever handed out to Student documents
MaxOid == 2

(***************************************************************************)
(* JavaScript values that reach the handlers in req.body.  A value is a    *)
(* record <<type tag, number, characters>>; strings are sequences of       *)
(* one-character strings so that trim() and toLowerCase() are computed.    *)
(***************************************************************************)
Undefined == [t |-> "undefined", n |-> 0, s |-> <<>>]
Null      == [t |-> "null",      n |-> 0, s |-> <<>>]
NaN       == [t |-> "NaN",       n |-> 0, s |-> <<>>]
PosInf    == [t |-> "Infinity",  n |-> 0, s |-> <<>>]
NegInf    == [t |-> "-Infinity", n |-> 0, s |-> <<>>]
Num(k)    == [t |-> "finite",    n |-> k, s |-> <<>>]
Str(cs)   == [t |-> "string",    n |-> 0, s |-> cs]
Bool(b)   == [t |-> "boolean",   n |-> IF b THEN 1 ELSE 0, s |-> <<>>]

\* typeof v
TypeOf(v) ==
    CASE v.t \in {"finite", "NaN", "Infinity", "-Infinity"} -> "number"
      [] v.t = "null" -> "object"
      [] OTHER -> v.t

\* !v
Falsy(v) ==
    \/ v.t \in {"undefined", "null", "NaN"}
    \/ v.t = "finite" /\ v.n = 0
    \/ v.t = "string" /\ v.s = <<>>
    \/ v.t = "boolean" /\ v.n = 0

\* v < k and v > k for a number v (every comparison with NaN is false)
NumLess(v, k) == (v.t = "finite" /\ v.n < k) \/ v.t = "-Infinity"
NumGreater(v, k) == (v.t = "finite" /\ v.n > k) \/ v.t = "Infinity"

\* Number.isFinite(v)
IsFiniteNumber(v) == v.t = "finite"

Whitespace == {" "}

LowerOf ==
    [c \in {"M", "A", "B"} |-> CASE c = "M" -> "m" [] c = "A" -> "a" [] OTHER -> "b"]

\* String.prototype.toLowerCase
ToLowerCase(cs) ==
    [i \in DOMAIN cs |-> IF cs[i] \in DOMAIN LowerOf THEN LowerOf[cs[i]] ELSE cs[i]]

RECURSIVE TrimStart(_)
TrimStart(cs) ==
    IF cs # <<>> /\ Head(cs) \in Whitespace THEN TrimStart(Tail(cs)) ELSE cs

RECURSIVE TrimEnd(_)
TrimEnd(cs) ==
    IF cs # <<>> /\ cs[Len(cs)] \in Whitespace
    THEN TrimEnd(SubSeq(cs, 1, Len(cs) - 1))
    ELSE cs

\* String.prototype.trim
Trim(cs) == TrimEnd(TrimStart(cs))

(***************************************************************************)
(* Identifiers.                                                            *)
(***************************************************************************)
\* ObjectIds of Student documents
Oids == 1 .. MaxOid

\* a path or body id that is no ObjectId ('invalidId')
MalformedId == 0

\* mongoose.Types.ObjectId.isValid(id)
IsValidObjectId(id) == id # MalformedId

\* the studentId `STU-<year>-<count + 1, padded to 4 digits>` of the pre-save hook
AutoStudentId(count) == <<"STU", count + 1>>

\* no studentId in the body, no studentId claim in the token
NoStudentId == <<"absent", 0>>

(***************************************************************************)
(* Principals: the req.user that `authenticate` attaches.  The role        *)
(* "anonymous" stands for a request without a bearer token.                *)
(***************************************************************************)
Principal(role, claim) == [role |-> role, studentId |-> claim]

\* authenticate: 401 without a token, otherwise req.user is set
Authenticate(p) == IF p.role = "anonymous" THEN 401 ELSE 200

\* requireAdmin in place of requireAdminOrTeacher
RequireAdminOnly(p) ==
    IF p.role = "anonymous" THEN 401
    ELSE IF p.role # "admin" THEN 403
    ELSE 200

\* requireAdminOrTeacher
RequireAdminOrTeacher(p) ==
    IF p.role = "anonymous" THEN 401
    ELSE IF p.role # "admin" /\ p.role # "teacher" THEN 403
    ELSE 200

\* requireStudent
RequireStudent(p) ==
    IF p.role = "anonymous" THEN 401
    ELSE IF p.role # "student" THEN 403
    ELSE 200

\* !req.user.studentId: the token carried no studentId
MissingStudentIdClaimNever(p) == FALSE

MissingStudentIdClaim(p) == p.studentId = NoStudentId

\* the two auth modules of the repository: requireStudent as it is, and
\* requireStudent with the additional check of the studentId
AuthBuilds == {"requireStudent", "requireStudent+studentId"}

\* authenticate and requireStudent in front of the self-service routes: the
\* status and the error of the response, status 200 when the handler is called
StudentGuard(build, p) ==
    IF Authenticate(p) # 200
        THEN [status |-> 401, error |-> "Access denied. No token provided."]
    ELSE IF RequireStudent(p) # 200
        THEN [status |-> 403, error |-> "Access denied. Student privileges required."]
    ELSE IF build = "requireStudent+studentId" /\ MissingStudentIdClaim(p)
        THEN [status |-> 403, error |-> "Access denied. Valid student ID required."]
    ELSE [status |-> 200, error |-> ""]

(***************************************************************************)
(* Grade records and the grade list of one Student document.               *)
(***************************************************************************)
Grade(subject, score) == [subject |-> subject, score |-> score]

Subjects(grades) == [i \in DOMAIN grades |-> grades[i].subject]

\* a comparison of the subjects as they are written
FindGradeIndexCaseSensitive(grades, subjectTrimmed) ==
    LET hits == {i \in DOMAIN grades : grades[i].subject = subjectTrimmed}
    IN  IF hits = {} THEN 0 ELSE CHOOSE i \in hits : \A j \in hits : i <= j

\* grades.findIndex(g => g.subject.toLowerCase() === subjectTrimmed.toLowerCase());
\* 0 stands for -1
FindGradeIndex(grades, subjectTrimmed) ==
    LET hits == {i \in DOMAIN grades :
                    ToLowerCase(grades[i].subject) = ToLowerCase(subjectTrimmed)}
    IN  IF hits = {} THEN 0 ELSE CHOOSE i \in hits : \A j \in hits : i <= j

\* grades.splice(i) in place of grades.splice(i, 1): the rest of the list goes too
SpliceToEnd(grades, i) == SubSeq(grades, 1, i - 1)

\* grades.splice(i, 1)
Splice(grades, i) ==
    [j \in 1 .. (Len(grades) - 1) |-> IF j < i THEN grades[j] ELSE grades[j + 1]]

\* an update that takes the record out and pushes its replacement
UpsertGradeMoveToEnd(grades, subject, score) ==
    LET subjectTrimmed == Trim(subject)
        existingGradeIndex == FindGradeIndex(grades, subjectTrimmed)
    IN  IF existingGradeIndex # 0
        THEN [grades  |-> Append(Splice(grades, existingGradeIndex),
                                 Grade(grades[existingGradeIndex].subject, score)),
              action  |-> "updated",
              subject |-> subjectTrimmed]
        ELSE [grades  |-> Append(grades, Grade(subjectTrimmed, score)),
              action  |-> "added",
              subject |-> subjectTrimmed]

\* a push of req.body.subject as it came
UpsertGradeUntrimmed(grades, subject, score) ==
    LET subjectTrimmed == Trim(subject)
        existingGradeIndex == FindGradeIndex(grades, subjectTrimmed)
    IN  IF existingGradeIndex # 0
        THEN [grades  |-> [grades EXCEPT ![existingGradeIndex].score = score],
              action  |-> "updated",
              subject |-> subjectTrimmed]
        ELSE [grades  |-> Append(grades, Grade(subject, score)),
              action  |-> "added",
              subject |-> subjectTrimmed]

\* a lookup of req.body.subject as it came
UpsertGradeMatchUntrimmed(grades, subject, score) ==
    LET subjectTrimmed == Trim(subject)
        existingGradeIndex == FindGradeIndex(grades, subject)
    IN  IF existingGradeIndex # 0
        THEN [grades  |-> [grades EXCEPT ![existingGradeIndex].score = score],
              action  |-> "updated",
              subject |-> subjectTrimmed]
        ELSE [grades  |-> Append(grades, Grade(subjectTrimmed, score)),
              action  |-> "added",
              subject |-> subjectTrimmed]

\* an update that overwrites the whole record
UpsertGradeRelabel(grades, subject, score) ==
    LET subjectTrimmed == Trim(subject)
        existingGradeIndex == FindGradeIndex(grades, subjectTrimmed)
    IN  IF existingGradeIndex # 0
        THEN [grades  |-> [grades EXCEPT ![existingGradeIndex] =
                                             Grade(subjectTrimmed, score)],
              action  |-> "updated",
              subject |-> subjectTrimmed]
        ELSE [grades  |-> Append(grades, Grade(subjectTrimmed, score)),
              action  |-> "added",
              subject |-> subjectTrimmed]

\* the in-memory change of addOrUpdateGrade
UpsertGrade(grades, subject, score) ==
    LET subjectTrimmed == Trim(subject)
        existingGradeIndex == FindGradeIndex(grades, subjectTrimmed)
    IN  IF existingGradeIndex # 0
        THEN [grades  |-> [grades EXCEPT ![existingGradeIndex].score = score],
              action  |-> "updated",
              subject |-> subjectTrimmed]
        ELSE [grades  |-> Append(grades, Grade(subjectTrimmed, score)),
              action  |-> "added",
              subject |-> subjectTrimmed]

\* availableSubjects in the form they are compared in
SpliceGradeLowerCased(grades, subject) ==
    LET subjectTrimmed == Trim(subject)
        gradeIndex == FindGradeIndex(grades, subjectTrimmed)
    IN  IF gradeIndex = 0
        THEN [found |-> FALSE, grades |-> grades, removed |-> <<>>,
              available |-> [i \in DOMAIN grades |-> ToLowerCase(grades[i].subject)]]
        ELSE [found |-> TRUE, grades |-> Splice(grades, gradeIndex),
              removed |-> <<grades[gradeIndex]>>, available |-> <<>>]

\* the in-memory change of removeGrade
SpliceGrade(grades, subject) ==
    LET subjectTrimmed == Trim(subject)
        gradeIndex == FindGradeIndex(grades, subjectTrimmed)
    IN  IF gradeIndex = 0
        THEN [found |-> FALSE, grades |-> grades,
              removed |-> <<>>, available |-> Subjects(grades)]
        ELSE [found |-> TRUE, grades |-> Splice(grades, gradeIndex),
              removed |-> <<grades[gradeIndex]>>, available |-> <<>>]

\* GradeSchema: subject a required String, score a required Number; the
\* document is validated when it is saved and NaN does not cast to Number
GradeSchemaAccepts(g) ==
    /\ g.subject # <<>>
    /\ TypeOf(g.score) = "number"
    /\ g.score.t # "NaN"

StudentSchemaAccepts(doc) ==
    \A i \in DOMAIN doc.grades : GradeSchemaAccepts(doc.grades[i])

(***************************************************************************)
(* Aggregates.  An average is null or a number of hundredths.              *)
(***************************************************************************)
NullAverage == [isNull |-> TRUE, hundredths |-> 0]
Hundredths(h) == [isNull |-> FALSE, hundredths |-> h]

RECURSIVE SumScores(_)
\* grades.reduce((sum, grade) => sum + grade.score, 0)
SumScores(grades) ==
    IF grades = <<>> THEN 0 ELSE grades[1].score.n + SumScores(Tail(grades))

\* Math.floor in place of Math.round
RoundedHundredthsFloor(totalScore, count) == (100 * totalScore) \div count

\* Math.round((totalScore / count) * 100), the numerator of `/ 100`:
\* Math.round rounds to the nearest integer, a half towards +Infinity
RoundedHundredths(totalScore, count) == (200 * totalScore + count) \div (2 * count)

\* getStudentGrades: averageGrade
StudentGradesAverage(grades) ==
    IF Len(grades) > 0
    THEN Hundredths(RoundedHundredths(SumScores(grades), Len(grades)))
    ELSE NullAverage

\* getMyGrades: averageGrade
MyGradesAverage(grades) ==
    IF Len(grades) > 0
    THEN Hundredths(RoundedHundredths(SumScores(grades), Len(grades)))
    ELSE NullAverage

\* getMyAcademicSummary: academicSummary.averageGrade
AcademicSummaryAverage(grades) ==
    IF Len(grades) > 0
    THEN Hundredths(RoundedHundredths(SumScores(grades), Len(grades)))
    ELSE NullAverage

RECURSIVE InsertByScore(_, _)
\* g takes its place behind the records that do not sort after it: the
\* comparator (a, b) => b.score - a.score under a stable sort
InsertByScore(sorted, g) ==
    IF sorted = <<>> THEN <<g>>
    ELSE IF Head(sorted).score.n >= g.score.n
    THEN <<Head(sorted)>> \o InsertByScore(Tail(sorted), g)
    ELSE <<g>> \o sorted

RECURSIVE SortedGrades(_)
\* [...grades].sort((a, b) => b.score - a.score); Array.prototype.sort is stable
SortedGrades(grades) ==
    IF grades = <<>> THEN <<>>
    ELSE InsertByScore(SortedGrades(SubSeq(grades, 1, Len(grades) - 1)),
                       grades[Len(grades)])

\* null as a highestGrade or lowestGrade
NullGrade == <<>>

\* academicSummary.highestGrade: sortedGrades[0]
HighestGrade(grades) ==
    IF Len(grades) > 0 THEN <<SortedGrades(grades)[1]>> ELSE NullGrade

\* academicSummary.lowestGrade: sortedGrades[sortedGrades.length - 1]
LowestGrade(grades) ==
    IF Len(grades) > 0 THEN <<SortedGrades(grades)[Len(grades)]>> ELSE NullGrade

\* the chain with `>` in place of `>=`
BucketOfAbove(score) ==
    IF score.n > 90 THEN "A"
    ELSE IF score.n > 80 THEN "B"
    ELSE IF score.n > 70 THEN "C"
    ELSE IF score.n > 60 THEN "D"
    ELSE "F"

\* the if / else-if chain of grades.forEach
BucketOf(score) ==
    IF score.n >= 90 THEN "A"
    ELSE IF score.n >= 80 THEN "B"
    ELSE IF score.n >= 70 THEN "C"
    ELSE IF score.n >= 60 THEN "D"
    ELSE "F"

Buckets == {"A", "B", "C", "D", "F"}

\* gradeDistribution before the loop
EmptyDistribution == [b \in Buckets |-> 0]

RECURSIVE GradeDistribution(_)
\* gradeDistribution after grades.forEach
GradeDistribution(grades) ==
    IF grades = <<>> THEN EmptyDistribution
    ELSE LET counted == GradeDistribution(SubSeq(grades, 1, Len(grades) - 1))
         IN  [counted EXCEPT ![BucketOf(grades[Len(grades)].score)] = @ + 1]

(***************************************************************************)
(* Requests and responses.  `status` is the HTTP status of the response,   *)
(* `error` its error text (empty on success), `fault` the persistence call *)
(* that threw while the request was served, `read` the grades of the       *)
(* document that findById returned to a grade mutation.                    *)
(***************************************************************************)
NoRequest ==
    [op |-> "none", role |-> "anonymous", claim |-> NoStudentId,
     id |-> MalformedId, supplied |-> MalformedId,
     subject |-> Undefined, score |-> Undefined,
     fault |-> "none", read |-> <<>>,
     status |-> 0, error |-> "", action |-> "", gradeSubject |-> <<>>,
     grades |-> <<>>, average |-> NullAverage, available |-> <<>>,
     removed |-> <<>>,
     highestGrade |-> NullGrade, lowestGrade |-> NullGrade,
     gradeDistribution |-> EmptyDistribution,
     studentId |-> NoStudentId, emailOwner |-> MalformedId, ids |-> <<>>,
     queryPage |-> Undefined, queryLimit |-> Undefined, querySubject |-> Undefined,
     page |-> 0, limit |-> 0, totalPages |-> 0, totalStudents |-> 0,
     hasNextPage |-> FALSE, hasPreviousPage |-> FALSE, listed |-> <<>>,
     successful |-> <<>>, blockedByEnrollments |-> <<>>, failed |-> <<>>,
     activeEnrollments |-> {}, isDeletable |-> FALSE, field |-> "",
     enrollmentThrows |-> {}, deleteThrows |-> {}]

Request(op, p) == [NoRequest EXCEPT !.op = op, !.role = p.role, !.claim = p.studentId]

Reply(req, status, error) == [req EXCEPT !.status = status, !.error = error]

\* the persistence call of a grade request that throws, if one does
Faults == {"none", "find", "save"}

(***************************************************************************)
(* POST /api/grades/student/:studentId                                     *)
(***************************************************************************)
AddOrUpdateGrade(p, id, subject, score, fault) ==
    LET req == [Request("addOrUpdateGrade", p) EXCEPT
                    !.id = id, !.subject = subject, !.score = score,
                    !.fault = fault]
        Fail(status, error) ==
            /\ last' = Reply(req, status, error)
            /\ UNCHANGED <<students, enrollments, nextOid>>
    IN  IF RequireAdminOrTeacher(p) # 200
            THEN Fail(RequireAdminOrTeacher(p), "Access denied")
        ELSE IF Falsy(subject) \/ score.t = "undefined" \/ score.t = "null"
            THEN Fail(400, "Missing required fields")
        ELSE IF TypeOf(score) # "number" \/ NumLess(score, 0) \/ NumGreater(score, 100)
            THEN Fail(400, "Score must be a number between 0 and 100")
        ELSE IF TypeOf(subject) # "string" \/ Len(Trim(subject.s)) = 0
            THEN Fail(400, "Subject must be a non-empty string")
        ELSE IF ~IsValidObjectId(id)
            THEN Fail(400, "Invalid student ID format")
        ELSE IF fault = "find"
            THEN Fail(500, "Failed to add/update grade")
        ELSE IF id \notin DOMAIN students
            THEN Fail(404, "Student not found")
        ELSE LET up == UpsertGrade(students[id].grades, subject.s, score)
                 student == [students[id] EXCEPT !.grades = up.grades]
             IN  IF fault = "save" \/ ~StudentSchemaAccepts(student)
                     THEN Fail(500, "Failed to add/update grade")
                 ELSE /\ students' = [students EXCEPT ![id] = student]
                      /\ last' = [Reply(req, 200, "") EXCEPT
                                      !.read = students[id].grades,
                                      !.action = up.action,
                                      !.gradeSubject = up.subject]
                      /\ UNCHANGED <<enrollments, nextOid>>

(***************************************************************************)
(* DELETE /api/grades/student/:studentId                                   *)
(***************************************************************************)
RemoveGrade(p, id, subject, fault) ==
    LET req == [Request("removeGrade", p) EXCEPT
                    !.id = id, !.subject = subject, !.fault = fault]
        Fail(status, error) ==
            /\ last' = Reply(req, status, error)
            /\ UNCHANGED <<students, enrollments, nextOid>>
    IN  IF RequireAdminOrTeacher(p) # 200
            THEN Fail(RequireAdminOrTeacher(p), "Access denied")
        ELSE IF Falsy(subject) \/ TypeOf(subject) # "string" \/ Len(Trim(subject.s)) = 0
            THEN Fail(400, "Subject is required and must be a non-empty string")
        ELSE IF ~IsValidObjectId(id)
            THEN Fail(400, "Invalid student ID format")
        ELSE IF fault = "find"
            THEN Fail(500, "Failed to remove grade")
        ELSE IF id \notin DOMAIN students
            THEN Fail(404, "Student not found")
        ELSE LET rm == SpliceGrade(students[id].grades, subject.s)
                 student == [students[id] EXCEPT !.grades = rm.grades]
             IN  IF ~rm.found
                     THEN /\ last' = [Reply(req, 404, "Grade not found for the specified subject")
                                          EXCEPT !.available = rm.available]
                          /\ UNCHANGED <<students, enrollments, nextOid>>
                 ELSE IF fault = "save" \/ ~StudentSchemaAccepts(student)
                     THEN Fail(500, "Failed to remove grade")
                 ELSE /\ students' = [students EXCEPT ![id] = student]
                      /\ last' = [Reply(req, 200, "") EXCEPT
                                      !.read = students[id].grades,
                                      !.removed = rm.removed]
                      /\ UNCHANGED <<enrollments, nextOid>>

(***************************************************************************)
(* GET /api/grades/student/:studentId                                      *)
(***************************************************************************)
GetStudentGrades(p, id, fault) ==
    LET req == [Request("getStudentGrades", p) EXCEPT !.id = id, !.fault = fault]
    IN  /\ UNCHANGED <<students, enrollments, nextOid>>
        /\ last' =
            IF RequireAdminOrTeacher(p) # 200
                THEN Reply(req, RequireAdminOrTeacher(p), "Access denied")
            ELSE IF ~IsValidObjectId(id)
                THEN Reply(req, 400, "Invalid student ID format")
            ELSE IF fault = "find"
                THEN Reply(req, 500, "Failed to fetch student grades")
            ELSE IF id \notin DOMAIN students
                THEN Reply(req, 404, "Student not found")
            ELSE [Reply(req, 200, "") EXCEPT
                      !.average = StudentGradesAverage(students[id].grades),
                      !.grades = students[id].grades]

\* Student.findOne({ studentId }): the documents with that studentId
FindByStudentId(studentId) == {o \in DOMAIN students : students[o].studentId = studentId}

\* the record of another student when the request names one
SelfServiceRecordOfSuppliedId(p, supplied) ==
    IF supplied \in DOMAIN students THEN {supplied} ELSE FindByStudentId(p.studentId)

\* Student.findOne({ studentId }) with the studentId of req.user; supplied is
\* a student id the request carries in its query or body
SelfServiceRecord(p, supplied) == FindByStudentId(p.studentId)

\* a self-service request up to the lookup of the student record: the
\* response that refuses it, or the response with status 200 to fill in
SelfService(op, p, supplied, build, fault, failure) ==
    LET req == [Request(op, p) EXCEPT !.supplied = supplied, !.fault = fault]
        guard == StudentGuard(build, p)
    IN  IF guard.status # 200
            THEN Reply(req, guard.status, guard.error)
        ELSE IF p.role # "student"
            THEN Reply(req, 403, "Access denied. Student role required.")
        ELSE IF MissingStudentIdClaim(p)
            THEN Reply(req, 400, "Student ID not found in authentication token")
        ELSE IF fault = "find"
            THEN Reply(req, 500, failure)
        ELSE IF SelfServiceRecord(p, supplied) = {}
            THEN Reply(req, 404, "Student record not found")
        ELSE Reply(req, 200, "")

(***************************************************************************)
(* GET /api/student/grades                                                 *)
(***************************************************************************)
GetMyGrades(p, supplied, build, fault) ==
    LET found == SelfService("getMyGrades", p, supplied, build, fault,
                             "Failed to fetch grades")
    IN  /\ UNCHANGED <<students, enrollments, nextOid>>
        /\ IF found.status # 200 THEN last' = found
           ELSE \E o \in SelfServiceRecord(p, supplied) :
                    last' = [found EXCEPT
                                !.id = o,
                                !.average = MyGradesAverage(students[o].grades),
                                !.grades = students[o].grades]

(***************************************************************************)
(* GET /api/student/grades/:subject                                        *)
(***************************************************************************)
GetMyGradeBySubject(p, supplied, build, subject, fault) ==
    LET req == [Request("getMyGradeBySubject", p) EXCEPT
                    !.supplied = supplied, !.subject = Str(subject), !.fault = fault]
        guard == StudentGuard(build, p)
    IN  /\ UNCHANGED <<students, enrollments, nextOid>>
        /\ IF guard.status # 200
               THEN last' = Reply(req, guard.status, guard.error)
           ELSE IF p.role # "student"
               THEN last' = Reply(req, 403, "Access denied. Student role required.")
           ELSE IF MissingStudentIdClaim(p)
               THEN last' = Reply(req, 400, "Student ID not found in authentication token")
           ELSE IF Len(Trim(subject)) = 0
               THEN last' = Reply(req, 400, "Subject parameter is required")
           ELSE IF fault = "find"
               THEN last' = Reply(req, 500, "Failed to fetch grade")
           ELSE IF SelfServiceRecord(p, supplied) = {}
               THEN last' = Reply(req, 404, "Student record not found")
           ELSE \E o \in SelfServiceRecord(p, supplied) :
                    LET found == FindGradeIndex(students[o].grades, Trim(subject))
                    IN  IF found = 0
                        THEN last' = [Reply(req, 404, "Grade not found for the specified subject")
                                          EXCEPT !.id = o,
                                                 !.available = Subjects(students[o].grades)]
                        ELSE last' = [Reply(req, 200, "") EXCEPT
                                          !.id = o,
                                          !.grades = <<students[o].grades[found]>>]

(***************************************************************************)
(* GET /api/student/summary                                                *)
(***************************************************************************)
GetMyAcademicSummary(p, supplied, build, fault) ==
    LET found == SelfService("getMyAcademicSummary", p, supplied, build, fault,
                             "Failed to fetch academic summary")
    IN  /\ UNCHANGED <<students, enrollments, nextOid>>
        /\ IF found.status # 200 THEN last' = found
           ELSE \E o \in SelfServiceRecord(p, supplied) :
                    last' = [found EXCEPT
                                !.id = o,
                                !.average = AcademicSummaryAverage(students[o].grades),
                                !.highestGrade = HighestGrade(students[o].grades),
                                !.lowestGrade = LowestGrade(students[o].grades),
                                !.gradeDistribution =
                                    GradeDistribution(students[o].grades),
                                !.grades = students[o].grades]

(***************************************************************************)
(* POST /api/students.  The body is abstracted to: whether name, email,    *)
(* age and gradeLevel pass the field checks, whose email it carries (the   *)
(* email of a stored student, or 0 for one that no student has), and the   *)
(* studentId it supplies, if any.                                          *)
(***************************************************************************)
\* requireAdmin
RequireAdmin(p) ==
    IF p.role = "anonymous" THEN 401
    ELSE IF p.role # "admin" THEN 403
    ELSE 200

\* the pre-save hook: a document without studentId gets STU-<year>-<count + 1>
PreSaveStudentId(studentId) ==
    IF studentId = NoStudentId
    THEN AutoStudentId(Cardinality(DOMAIN students))
    ELSE studentId

AddStudent(p, fieldsOk, emailOwner, studentId, fault) ==
    LET req == [Request("addStudent", p) EXCEPT
                    !.emailOwner = emailOwner, !.studentId = studentId,
                    !.fault = fault]
        Fail(status, error) ==
            /\ last' = Reply(req, status, error)
            /\ UNCHANGED <<students, enrollments, nextOid>>
        saved == PreSaveStudentId(studentId)
    IN  IF RequireAdmin(p) # 200
            THEN Fail(RequireAdmin(p), "Access denied")
        ELSE IF ~fieldsOk
            THEN Fail(400, "Missing required fields")
        ELSE IF fault = "find"
            THEN Fail(500, "Failed to add student")
        ELSE IF emailOwner \in DOMAIN students
            THEN Fail(409, "Student with this email already exists")
        ELSE IF studentId # NoStudentId /\ FindByStudentId(studentId) # {}
            THEN Fail(409, "Student ID already exists")
        ELSE IF fault = "save"
            THEN Fail(500, "Failed to add student")
        ELSE IF FindByStudentId(saved) # {}
            THEN Fail(409, "Duplicate studentId")
        ELSE /\ nextOid <= MaxOid
             /\ students' = [o \in DOMAIN students \cup {nextOid} |->
                                IF o = nextOid
                                THEN [studentId |-> saved, grades |-> <<>>]
                                ELSE students[o]]
             /\ nextOid' = nextOid + 1
             /\ last' = [Reply(req, 201, "") EXCEPT !.id = nextOid, !.studentId = saved]
             /\ UNCHANGED enrollments

(***************************************************************************)
(* The list operations: query strings, pagination, the subject filter.     *)
(***************************************************************************)
RECURSIVE Ascending(_)
\* the ObjectIds of a set in the order of the collection
Ascending(S) ==
    IF S = {} THEN <<>>
    ELSE LET least == CHOOSE x \in S : \A y \in S : x <= y
         IN  <<least>> \o Ascending(S \ {least})

DigitChars == <<"0", "1", "2", "3", "4", "5", "6", "7", "8", "9">>

IsDigit(c) == \E i \in DOMAIN DigitChars : DigitChars[i] = c

DigitValue(c) == (CHOOSE i \in DOMAIN DigitChars : DigitChars[i] = c) - 1

RECURSIVE DigitsValue(_, _)
\* the value of the digits a string starts with
DigitsValue(cs, acc) ==
    IF cs = <<>> \/ ~IsDigit(Head(cs)) THEN acc
    ELSE DigitsValue(Tail(cs), 10 * acc + DigitValue(Head(cs)))

\* parseInt(v): leading whitespace, a sign, then digits up to the first
\* character that is none; NaN without a digit and for an absent parameter
ParseInt(v) ==
    IF v.t # "string" THEN NaN
    ELSE LET t == TrimStart(v.s)
             signed == t # <<>> /\ Head(t) \in {"-", "+"}
             u == IF signed THEN Tail(t) ELSE t
         IN  IF u = <<>> \/ ~IsDigit(Head(u)) THEN NaN
             ELSE IF signed /\ Head(t) = "-" THEN Num(0 - DigitsValue(u, 0))
             ELSE Num(DigitsValue(u, 0))

\* parseInt(...) || d
OrDefault(v, d) == IF Falsy(v) THEN d ELSE v.n

\* Math.floor in place of Math.ceil
FloorDiv(a, b) == IF b > 0 THEN a \div b ELSE 0 - ((a + (0 - b) - 1) \div (0 - b))

\* Math.ceil(a / b) for a >= 0 and b # 0
CeilDiv(a, b) == IF b > 0 THEN (a + b - 1) \div b ELSE 0 - (a \div (0 - b))

\* the pagination object of a list response
Pagination(page, limit, totalStudents) ==
    LET totalPages == CeilDiv(totalStudents, limit)
    IN  [totalPages |-> totalPages,
         hasNextPage |-> page < totalPages,
         hasPreviousPage |-> page > 1]

\* the documents a cursor yields after skip and limit
Slice(docs, skip, limit) ==
    SubSeq(docs, skip + 1, IF skip + limit < Len(docs) THEN skip + limit ELSE Len(docs))

\* the ObjectIds of a set, the newest first
Descending(S) ==
    LET up == Ascending(S) IN [i \in DOMAIN up |-> up[Len(up) + 1 - i]]

\* haystack.includes(needle)
Includes(haystack, needle) ==
    \E a \in 0 .. (Len(haystack) - Len(needle)) :
        \A i \in 1 .. Len(needle) : haystack[a + i] = needle[i]

\* new RegExp(pattern, 'i') finds a match in text; patterns are plain letters
\* and spaces
RegExpTest(pattern, text) == Includes(ToLowerCase(text), ToLowerCase(pattern))

\* the students with a grade whose subject the pattern matches
WithGradeMatching(pattern) ==
    {o \in DOMAIN students :
        \E i \in DOMAIN students[o].grades :
            RegExpTest(pattern, students[o].grades[i].subject)}

\* averageGrade of a summary entry: $avg of the scores, rounded when truthy
SummaryAverage(grades) ==
    IF Len(grades) > 0 /\ SumScores(grades) # 0
    THEN Hundredths(RoundedHundredths(SumScores(grades), Len(grades)))
    ELSE NullAverage

ListRequest(op, p, queryPage, queryLimit, querySubject, fault) ==
    [Request(op, p) EXCEPT
        !.queryPage = queryPage, !.queryLimit = queryLimit,
        !.querySubject = querySubject, !.fault = fault,
        !.page = OrDefault(ParseInt(queryPage), 1),
        !.limit = OrDefault(ParseInt(queryLimit), 10)]

\* the response of a list operation for the page it listed
Listed(req, totalStudents, listed) ==
    LET pagination == Pagination(req.page, req.limit, totalStudents)
    IN  [Reply(req, 200, "") EXCEPT
            !.totalStudents = totalStudents,
            !.totalPages = pagination.totalPages,
            !.hasNextPage = pagination.hasNextPage,
            !.hasPreviousPage = pagination.hasPreviousPage,
            !.listed = listed]

(***************************************************************************)
(* GET /api/students.  A negative skip is refused by the database; a       *)
(* negative limit of a find is taken as its magnitude.                     *)
(***************************************************************************)
GetAllStudents(p, queryPage, queryLimit, fault) ==
    LET req == ListRequest("getAllStudents", p, queryPage, queryLimit, Undefined, fault)
        skip == (req.page - 1) * req.limit
        limit == IF req.limit < 0 THEN 0 - req.limit ELSE req.limit
        found == Slice(Descending(DOMAIN students), skip, limit)
    IN  /\ UNCHANGED <<students, enrollments, nextOid>>
        /\ last' =
            IF RequireAdminOrTeacher(p) # 200
                THEN Reply(req, RequireAdminOrTeacher(p), "Access denied")
            ELSE IF fault = "find" \/ skip < 0
                THEN Reply(req, 500, "Failed to fetch students")
            ELSE Listed(req, Cardinality(DOMAIN students),
                        [i \in DOMAIN found |->
                            [id |-> found[i], grades |-> <<>>, average |-> NullAverage]])

(***************************************************************************)
(* GET /api/grades/summary.  $skip must not be negative and $limit must be *)
(* positive, or the aggregation fails.                                     *)
(***************************************************************************)
GetGradesSummary(p, queryPage, queryLimit, subject, fault) ==
    LET req == ListRequest("getGradesSummary", p, queryPage, queryLimit, subject, fault)
        skip == (req.page - 1) * req.limit
        matched ==
            IF ~Falsy(subject) /\ Trim(subject.s) # <<>>
            THEN WithGradeMatching(Trim(subject.s))
            ELSE DOMAIN students
        counted ==
            IF ~Falsy(subject) THEN WithGradeMatching(Trim(subject.s))
            ELSE DOMAIN students
        found == Slice(Ascending(matched), skip, req.limit)
        Returned(grades) ==
            IF ~Falsy(subject)
            THEN SelectSeq(grades,
                     LAMBDA g : Includes(ToLowerCase(g.subject), ToLowerCase(subject.s)))
            ELSE grades
    IN  /\ UNCHANGED <<students, enrollments, nextOid>>
        /\ last' =
            IF RequireAdminOrTeacher(p) # 200
                THEN Reply(req, RequireAdminOrTeacher(p), "Access denied")
            ELSE IF fault = "find" \/ skip < 0 \/ req.limit < 1
                THEN Reply(req, 500, "Failed to fetch grades summary")
            ELSE Listed(req, Cardinality(counted),
                        [i \in DOMAIN found |->
                            [id |-> found[i],
                             grades |-> Returned(students[found[i]].grades),
                             average |-> SummaryAverage(students[found[i]].grades)]])

(***************************************************************************)
(* GET /api/students/:id                                                   *)
(***************************************************************************)
GetStudentById(p, id, fault) ==
    LET req == [Request("getStudentById", p) EXCEPT !.id = id, !.fault = fault]
    IN  /\ UNCHANGED <<students, enrollments, nextOid>>
        /\ last' =
            IF RequireAdminOrTeacher(p) # 200
                THEN Reply(req, RequireAdminOrTeacher(p), "Access denied")
            ELSE IF ~IsValidObjectId(id)
                THEN Reply(req, 400, "Invalid student ID format")
            ELSE IF fault = "find"
                THEN Reply(req, 500, "Failed to fetch student")
            ELSE IF id \notin DOMAIN students
                THEN Reply(req, 404, "Student not found")
            ELSE [Reply(req, 200, "") EXCEPT
                      !.studentId = students[id].studentId,
                      !.grades = students[id].grades]

(***************************************************************************)
(* The Enrollment collection, written by the enrollment service.           *)
(***************************************************************************)
EnrollmentStatus ==
    {"active", "enrolled", "in_progress", "completed",
     "dropped", "withdrawn", "suspended", "transferred"}

Enrollment(studentRef, status) == [studentId |-> studentRef, status |-> status]

EnrollmentSaved(studentRef, status) ==
    /\ enrollments' = enrollments \cup {Enrollment(studentRef, status)}
    /\ UNCHANGED <<students, nextOid, last, calls, versions>>

EnrollmentStatusChanged(e, status) ==
    /\ e \in enrollments
    /\ enrollments' = (enrollments \ {e}) \cup {Enrollment(e.studentId, status)}
    /\ UNCHANGED <<students, nextOid, last, calls, versions>>

(***************************************************************************)
(* The deletion guard.                                                     *)
(***************************************************************************)
\* a studentId that is the 24 hex digits of ObjectId o
HexStudentId(o) == <<"HEX", o>>

\* the filter { studentId: <string> } on an ObjectId path: the string casts
\* to an ObjectId, or the query is rejected with a CastError
CastsToObjectId(studentId) == studentId[1] = "HEX"

\* the entry reported when the enrollments could not be read
CouldNotVerify == Enrollment(MalformedId, "Could not verify enrollment status")

\* a guard that lets the student pass when the enrollments cannot be read
CheckActiveEnrollmentsFailOpen(studentObjectId, studentId, queryThrows) ==
    IF queryThrows \/ ~CastsToObjectId(studentId)
    THEN [hasActive |-> FALSE, enrollments |-> {}]
    ELSE LET activeEnrollments ==
                 {e \in enrollments :
                     /\ e.studentId \in {studentObjectId, studentId[2]}
                     /\ e.status \in {"active", "enrolled", "in_progress"}}
         IN  [hasActive |-> activeEnrollments # {}, enrollments |-> activeEnrollments]

\* checkActiveEnrollments(studentObjectId, studentId); queryThrows: Enrollment.find
\* or its populate rejects
CheckActiveEnrollments(studentObjectId, studentId, queryThrows) ==
    IF queryThrows \/ ~CastsToObjectId(studentId)
    THEN [hasActive |-> TRUE, enrollments |-> {CouldNotVerify}]
    ELSE LET activeEnrollments ==
                 {e \in enrollments :
                     /\ e.studentId \in {studentObjectId, studentId[2]}
                     /\ e.status \in {"active", "enrolled", "in_progress"}}
         IN  [hasActive |-> activeEnrollments # {}, enrollments |-> activeEnrollments]

\* the persistence call of a deletion that throws, if one does
DeleteFaults == {"none", "find", "enrollments", "delete"}

\* a deletion that removes nothing
WithoutStudentKept(docs, o) == docs

\* the collection without document o
WithoutStudent(docs, o) == [x \in DOMAIN docs \ {o} |-> docs[x]]

(***************************************************************************)
(* DELETE /api/students/:id                                                *)
(***************************************************************************)
DeleteStudent(p, id, fault) ==
    LET req == [Request("deleteStudent", p) EXCEPT !.id = id, !.fault = fault]
        Fail(status, error) ==
            /\ last' = Reply(req, status, error)
            /\ UNCHANGED <<students, enrollments, nextOid>>
    IN  IF p.role # "admin"
            THEN Fail(403, "Access denied. Admin role required.")
        ELSE IF ~IsValidObjectId(id)
            THEN Fail(400, "Invalid student ID format")
        ELSE IF fault = "find"
            THEN Fail(500, "Failed to delete student")
        ELSE IF id \notin DOMAIN students
            THEN Fail(404, "Student not found")
        ELSE LET hasActiveEnrollments ==
                     CheckActiveEnrollments(id, students[id].studentId,
                                            fault = "enrollments")
             IN  IF hasActiveEnrollments.hasActive
                     THEN /\ last' = [Reply(req, 409, "Cannot delete student with active enrollments")
                                          EXCEPT !.activeEnrollments =
                                                     hasActiveEnrollments.enrollments]
                          /\ UNCHANGED <<students, enrollments, nextOid>>
                 ELSE IF fault = "delete"
                     THEN Fail(500, "Failed to delete student")
                 ELSE /\ students' = WithoutStudent(students, id)
                      /\ last' = [Reply(req, 200, "") EXCEPT
                                      !.studentId = students[id].studentId,
                                      !.read = students[id].grades]
                      /\ UNCHANGED <<enrollments, nextOid>>

(***************************************************************************)
(* GET /api/students/:id/deletable                                         *)
(***************************************************************************)
CheckStudentDeletable(p, id, fault) ==
    LET req == [Request("checkStudentDeletable", p) EXCEPT !.id = id, !.fault = fault]
    IN  /\ UNCHANGED <<students, enrollments, nextOid>>
        /\ last' =
            IF p.role # "admin"
                THEN Reply(req, 403, "Access denied. Admin role required.")
            ELSE IF ~IsValidObjectId(id)
                THEN Reply(req, 400, "Invalid student ID format")
            ELSE IF fault = "find"
                THEN Reply(req, 500, "Failed to check student deletability")
            ELSE IF id \notin DOMAIN students
                THEN Reply(req, 404, "Student not found")
            ELSE LET enrollmentCheck ==
                         CheckActiveEnrollments(id, students[id].studentId,
                                                fault = "enrollments")
                 IN  [Reply(req, 200, "") EXCEPT
                         !.studentId = students[id].studentId,
                         !.isDeletable = ~enrollmentCheck.hasActive,
                         !.activeEnrollments = enrollmentCheck.enrollments]

(***************************************************************************)
(* PUT /api/students/:id.  Of the fields of the body the model keeps the   *)
(* studentId; fieldsOk: validateUpdateData accepts the other fields.       *)
(***************************************************************************)
\* validateUpdateData for the studentId of the body, when it has one
StudentIdTaken(studentId, currentStudentId) ==
    studentId # NoStudentId /\ FindByStudentId(studentId) \ {currentStudentId} # {}

\* findByIdAndUpdate with the studentId of the body, when it has one
WithStudentId(docs, o, studentId) ==
    IF studentId = NoStudentId THEN docs
    ELSE [docs EXCEPT ![o].studentId = studentId]

UpdateStudent(p, id, fieldsOk, studentId, fault) ==
    LET req == [Request("updateStudent", p) EXCEPT
                    !.id = id, !.studentId = studentId, !.fault = fault]
        Fail(status, error) ==
            /\ last' = Reply(req, status, error)
            /\ UNCHANGED <<students, enrollments, nextOid>>
    IN  IF p.role # "admin"
            THEN Fail(403, "Access denied. Admin role required.")
        ELSE IF ~IsValidObjectId(id)
            THEN Fail(400, "Invalid student ID format")
        ELSE IF fault = "find"
            THEN Fail(500, "Failed to update student")
        ELSE IF id \notin DOMAIN students
            THEN Fail(404, "Student not found")
        ELSE IF ~fieldsOk \/ StudentIdTaken(studentId, id)
            THEN Fail(400, "Validation failed")
        ELSE IF fault = "save"
            THEN Fail(500, "Failed to update student")
        ELSE /\ students' = WithStudentId(students, id, studentId)
             /\ last' = [Reply(req, 200, "") EXCEPT
                             !.studentId = students'[id].studentId]
             /\ UNCHANGED <<enrollments, nextOid>>

(***************************************************************************)
(* PATCH /api/students/:id.  field: req.body.field, "" when it is absent;  *)
(* hasValue: req.body.value is not undefined; for the field studentId the  *)
(* value is studentId, for another field fieldsOk says whether             *)
(* validateUpdateData accepts it.                                          *)
(***************************************************************************)
allowedFields == {"name", "email", "age", "gradeLevel", "studentId"}

UpdateStudentPartial(p, id, field, hasValue, fieldsOk, studentId, fault) ==
    LET req == [Request("updateStudentPartial", p) EXCEPT
                    !.id = id, !.field = field, !.studentId = studentId,
                    !.fault = fault]
        Fail(status, error) ==
            /\ last' = Reply(req, status, error)
            /\ UNCHANGED <<students, enrollments, nextOid>>
        value == IF field = "studentId" THEN studentId ELSE NoStudentId
    IN  IF p.role # "admin"
            THEN Fail(403, "Access denied. Admin role required.")
        ELSE IF field = "" \/ ~hasValue
            THEN Fail(400, "Missing required fields")
        ELSE IF ~IsValidObjectId(id)
            THEN Fail(400, "Invalid student ID format")
        ELSE IF field \notin allowedFields
            THEN Fail(400, "Invalid field")
        ELSE IF fault = "find"
            THEN Fail(500, "Failed to update student field")
        ELSE IF id \notin DOMAIN students
            THEN Fail(404, "Student not found")
        ELSE IF ~fieldsOk \/ StudentIdTaken(value, id)
            THEN Fail(400, "Validation failed")
        ELSE IF fault = "save"
            THEN Fail(500, "Failed to update student field")
        ELSE /\ students' = WithStudentId(students, id, value)
             /\ last' = [Reply(req, 200, "") EXCEPT
                             !.studentId = students'[id].studentId]
             /\ UNCHANGED <<enrollments, nextOid>>

(***************************************************************************)
(* POST /api/students/bulk-delete.  The loop over the found students is    *)
(* BulkDeleteLoop: it folds the candidates in the order find returned them.*)
(***************************************************************************)
NoDeletionResults == [successful |-> <<>>, failed |-> <<>>, blockedByEnrollments |-> <<>>]

RECURSIVE BulkDeleteLoop(_, _, _, _, _)
\* a loop that ends at the first candidate whose deletion throws
BulkDeleteLoopAborting(docs, found, results, enrollmentThrows, deleteThrows) ==
    IF found = <<>> THEN [students |-> docs, results |-> results]
    ELSE LET student == Head(found)
             hasActiveEnrollments ==
                 CheckActiveEnrollments(student, docs[student].studentId,
                                        student \in enrollmentThrows)
         IN  IF hasActiveEnrollments.hasActive
             THEN BulkDeleteLoop(docs, Tail(found),
                      [results EXCEPT !.blockedByEnrollments = Append(@, student)],
                      enrollmentThrows, deleteThrows)
             ELSE IF student \in deleteThrows
             THEN [students |-> docs,
                   results |-> [results EXCEPT !.failed = Append(@, student)]]
             ELSE BulkDeleteLoop(WithoutStudent(docs, student), Tail(found),
                      [results EXCEPT !.successful = Append(@, student)],
                      enrollmentThrows, deleteThrows)

\* a loop that reports no candidate whose deletion throws
BulkDeleteLoopUnreported(docs, found, results, enrollmentThrows, deleteThrows) ==
    IF found = <<>> THEN [students |-> docs, results |-> results]
    ELSE LET student == Head(found)
             hasActiveEnrollments ==
                 CheckActiveEnrollments(student, docs[student].studentId,
                                        student \in enrollmentThrows)
         IN  IF hasActiveEnrollments.hasActive
             THEN BulkDeleteLoop(docs, Tail(found),
                      [results EXCEPT !.blockedByEnrollments = Append(@, student)],
                      enrollmentThrows, deleteThrows)
             ELSE IF student \in deleteThrows
             THEN BulkDeleteLoop(docs, Tail(found), results,
                      enrollmentThrows, deleteThrows)
             ELSE BulkDeleteLoop(WithoutStudent(docs, student), Tail(found),
                      [results EXCEPT !.successful = Append(@, student)],
                      enrollmentThrows, deleteThrows)

\* docs: the collection so far; found: the candidates left; results: the
\* lists so far; enrollmentThrows, deleteThrows: the candidates whose
\* enrollment query, whose findByIdAndDelete throws
BulkDeleteLoop(docs, found, results, enrollmentThrows, deleteThrows) ==
    IF found = <<>> THEN [students |-> docs, results |-> results]
    ELSE LET student == Head(found)
             hasActiveEnrollments ==
                 CheckActiveEnrollments(student, docs[student].studentId,
                                        student \in enrollmentThrows)
         IN  IF hasActiveEnrollments.hasActive
             THEN BulkDeleteLoop(docs, Tail(found),
                      [results EXCEPT !.blockedByEnrollments = Append(@, student)],
                      enrollmentThrows, deleteThrows)
             ELSE IF student \in deleteThrows
             THEN BulkDeleteLoop(docs, Tail(found),
                      [results EXCEPT !.failed = Append(@, student)],
                      enrollmentThrows, deleteThrows)
             ELSE BulkDeleteLoop(WithoutStudent(docs, student), Tail(found),
                      [results EXCEPT !.successful = Append(@, student)],
                      enrollmentThrows, deleteThrows)

\* a status that knows no partial success
BulkStatusAllOrNothing(results) ==
    IF Len(results.successful) = 0
    THEN IF Len(results.blockedByEnrollments) > 0 THEN 409 ELSE 500
    ELSE 200

\* the status of the bulk response
BulkStatus(results) ==
    IF Len(results.successful) = 0
    THEN IF Len(results.blockedByEnrollments) > 0 THEN 409 ELSE 500
    ELSE IF Len(results.failed) > 0 \/ Len(results.blockedByEnrollments) > 0
    THEN 207
    ELSE 200

\* a check of the first id only
InvalidIdsOfFirst(studentIds) ==
    IF Len(studentIds) > 0 /\ ~IsValidObjectId(studentIds[1]) THEN <<studentIds[1]>> ELSE <<>>

\* studentIds.filter(id => !mongoose.Types.ObjectId.isValid(id))
InvalidIds(studentIds) == SelectSeq(studentIds, LAMBDA id : ~IsValidObjectId(id))

\* isArray: the body carries an array; studentIds: its elements
BulkDeleteStudents(p, isArray, studentIds, findThrows, enrollmentThrows, deleteThrows) ==
    LET req == [Request("bulkDeleteStudents", p) EXCEPT
                    !.ids = studentIds,
                    !.enrollmentThrows = enrollmentThrows,
                    !.deleteThrows = deleteThrows,
                    !.fault = IF findThrows THEN "find" ELSE "none"]
        Fail(status, error) ==
            /\ last' = Reply(req, status, error)
            /\ UNCHANGED <<students, enrollments, nextOid>>
        found == Ascending({studentIds[i] : i \in DOMAIN studentIds} \cap DOMAIN students)
        done == BulkDeleteLoop(students, found, NoDeletionResults,
                               enrollmentThrows, deleteThrows)
    IN  IF p.role # "admin"
            THEN Fail(403, "Access denied. Admin role required.")
        ELSE IF ~isArray \/ Len(studentIds) = 0
            THEN Fail(400, "Student IDs array is required and cannot be empty")
        ELSE IF Len(InvalidIds(studentIds)) > 0
            THEN Fail(400, "Invalid student ID format(s)")
        ELSE IF findThrows
            THEN Fail(500, "Bulk deletion failed")
        ELSE IF Len(found) = 0
            THEN Fail(404, "No students found for the provided IDs")
        ELSE /\ students' = done.students
             /\ last' = [Reply(req, BulkStatus(done.results), "") EXCEPT
                             !.successful = done.results.successful,
                             !.failed = done.results.failed,
                             !.blockedByEnrollments = done.results.blockedByEnrollments]
             /\ UNCHANGED <<enrollments, nextOid>>

(***************************************************************************)
(* Calls in flight.  A handler runs without a break up to an await and     *)
(* gives way to the other calls there: Student.findById, student.save,     *)
(* checkActiveEnrollments and Student.findByIdAndDelete each end a step.   *)
(* A call starts at its first await, its request authorized and valid.     *)
(***************************************************************************)
\* a call of a grade route or of a deletion, about to read the student
Call(op, id, subject, score) ==
    [op |-> op, id |-> id, subject |-> subject, score |-> score,
     pc |-> "findById", studentId |-> NoStudentId, grades |-> <<>>,
     version |-> 0, status |-> 0, action |-> ""]

\* the response of call c
Responded(c, status, action) ==
    [c EXCEPT !.pc = "responded", !.status = status, !.action = action]

\* what save() is to send for the change made to the loaded document: a
\* pushed record, the score of one element, or the array after a splice
Push(grade)       == [op |-> "$push", index |-> 0, grade |-> <<grade>>, grades |-> <<>>]
SetScore(i, g)    == [op |-> "$set score", index |-> i, grade |-> <<g>>, grades |-> <<>>]
SetGrades(grades) == [op |-> "$set grades", index |-> 0, grade |-> <<>>, grades |-> grades]

\* student.grades[existingGradeIndex].score = score, or student.grades.push
UpsertGradeChange(grades, subject, score) ==
    LET subjectTrimmed == Trim(subject)
        existingGradeIndex == FindGradeIndex(grades, subjectTrimmed)
    IN  IF existingGradeIndex # 0
        THEN SetScore(existingGradeIndex,
                      Grade(grades[existingGradeIndex].subject, score))
        ELSE Push(Grade(subjectTrimmed, score))

\* the loaded grades with the change made to them
Changed(grades, change) ==
    IF change.op = "$push" THEN Append(grades, change.grade[1])
    ELSE IF change.op = "$set score"
        THEN [grades EXCEPT ![change.index].score = change.grade[1].score]
    ELSE change.grades

Saved(ok, docs, vers) == [ok |-> ok, docs |-> docs, versions |-> vers]

\* a save that replaces the stored document by the loaded one
SaveWholeDocument(docs, vers, id, loaded, change) ==
    IF id \notin DOMAIN docs THEN Saved(FALSE, docs, vers)
    ELSE Saved(TRUE, [docs EXCEPT ![id].grades = Changed(loaded.grades, change)],
               [vers EXCEPT ![id] = @ + 1])

\* a save that inserts the document when the store has none
SaveUpserting(docs, vers, id, loaded, change) ==
    IF id \notin DOMAIN docs
    THEN Saved(TRUE,
               [o \in DOMAIN docs \cup {id} |->
                   IF o = id
                   THEN [studentId |-> loaded.studentId,
                         grades |-> Changed(loaded.grades, change)]
                   ELSE docs[o]],
               [o \in DOMAIN docs \cup {id} |->
                   IF o = id THEN loaded.version + 1 ELSE vers[o]])
    ELSE IF change.op = "$push"
        THEN Saved(TRUE, [docs EXCEPT ![id].grades = Append(@, change.grade[1])],
                   [vers EXCEPT ![id] = @ + 1])
    ELSE IF vers[id] # loaded.version THEN Saved(FALSE, docs, vers)
    ELSE IF change.op = "$set score"
        THEN Saved(TRUE,
                   [docs EXCEPT ![id].grades[change.index].score =
                                    change.grade[1].score],
                   vers)
    ELSE Saved(TRUE, [docs EXCEPT ![id].grades = change.grades],
               [vers EXCEPT ![id] = @ + 1])

\* await student.save() of a document that findById loaded: Mongoose sends
\* the change and not the document, as one update of the stored document.
\* A push is a $push that increments the version key; the score of the
\* element at an index is a $set that asks for the version key the document
\* was loaded with; a spliced array is a $set of the array that asks for the
\* version key and increments it.  An update that matches no document makes
\* save() reject, and the handler's catch answers 500.
Save(docs, vers, id, loaded, change) ==
    IF id \notin DOMAIN docs THEN Saved(FALSE, docs, vers)
    ELSE IF change.op = "$push"
        THEN Saved(TRUE, [docs EXCEPT ![id].grades = Append(@, change.grade[1])],
                   [vers EXCEPT ![id] = @ + 1])
    ELSE IF vers[id] # loaded.version THEN Saved(FALSE, docs, vers)
    ELSE IF change.op = "$set score"
        THEN Saved(TRUE,
                   [docs EXCEPT ![id].grades[change.index].score =
                                    change.grade[1].score],
                   vers)
    ELSE Saved(TRUE, [docs EXCEPT ![id].grades = change.grades],
               [vers EXCEPT ![id] = @ + 1])

GradeOps == {"addOrUpdateGrade", "removeGrade"}

DeletionOps == {"deleteStudent", "bulkDeleteStudents"}

\* await Student.findById(studentId) of the grade routes and of deleteStudent,
\* await Student.find({ _id: { $in: studentIds } }) of bulkDeleteStudents:
\* the call holds the document as it is stored now
FindById(c) ==
    LET call == calls[c]
    IN  /\ call.pc = "findById"
        /\ calls' = [calls EXCEPT ![c] =
                         IF call.id \notin DOMAIN students
                         THEN Responded(call, 404, "")
                         ELSE [call EXCEPT
                                  !.pc = IF call.op \in GradeOps
                                         THEN "save" ELSE "checkActiveEnrollments",
                                  !.studentId = students[call.id].studentId,
                                  !.grades = students[call.id].grades,
                                  !.version = versions[call.id]]]
        /\ UNCHANGED <<students, enrollments, nextOid, last, versions>>

\* the change in memory and await student.save() of a grade route
SaveGrades(c) ==
    LET call == calls[c]
        rm == SpliceGrade(call.grades, call.subject)
        change == IF call.op = "addOrUpdateGrade"
                  THEN UpsertGradeChange(call.grades, call.subject, call.score)
                  ELSE SetGrades(rm.grades)
        saved == Save(students, versions, call.id, call, change)
    IN  /\ call.pc = "save"
        /\ IF call.op = "removeGrade" /\ ~rm.found
           THEN /\ calls' = [calls EXCEPT ![c] = Responded(@, 404, "")]
                /\ UNCHANGED <<students, versions>>
           ELSE /\ students' = saved.docs
                /\ versions' = saved.versions
                /\ calls' = [calls EXCEPT ![c] =
                                 IF ~saved.ok THEN Responded(@, 500, "")
                                 ELSE Responded(@, 200,
                                          IF change.op = "$push" THEN "added"
                                          ELSE IF change.op = "$set score"
                                              THEN "updated" ELSE "removed")]
        /\ UNCHANGED <<enrollments, nextOid, last>>

\* await checkActiveEnrollments(id, student.studentId) of a deletion: the
\* enrollments as they are stored now
CheckEnrollments(c) ==
    LET call == calls[c]
        hasActiveEnrollments == CheckActiveEnrollments(call.id, call.studentId, FALSE)
        blocked == [NoDeletionResults EXCEPT !.blockedByEnrollments = <<call.id>>]
    IN  /\ call.pc = "checkActiveEnrollments"
        /\ calls' = [calls EXCEPT ![c] =
                         IF ~hasActiveEnrollments.hasActive
                         THEN [@ EXCEPT !.pc = "findByIdAndDelete"]
                         ELSE IF call.op = "deleteStudent"
                             THEN Responded(@, 409, "")
                         ELSE Responded(@, BulkStatus(blocked), "")]
        /\ UNCHANGED <<students, enrollments, nextOid, last, versions>>

\* await Student.findByIdAndDelete(id) of a deletion, and its response
FindByIdAndDelete(c) ==
    LET call == calls[c]
        successful == [NoDeletionResults EXCEPT !.successful = <<call.id>>]
    IN  /\ call.pc = "findByIdAndDelete"
        /\ students' = WithoutStudent(students, call.id)
        /\ versions' = WithoutStudent(versions, call.id)
        /\ calls' = [calls EXCEPT ![c] =
                         IF call.op = "deleteStudent"
                         THEN Responded(@, 200, "deleted")
                         ELSE Responded(@, BulkStatus(successful), "deleted")]
        /\ UNCHANGED <<enrollments, nextOid, last>>

(***************************************************************************)
(* The inputs the requests draw from.                                      *)
(***************************************************************************)
math       == <<"m", "a", "t", "h">>
Math       == <<"M", "a", "t", "h">>
mathPadded == <<" ", "m", "a", "t", "h", " ">>
Art        == <<"A", "r", "t">>
Bio        == <<"B", "i", "o">>

\* req.body.subject: strings that are non-empty after trimming, and the rest
ValidSubjects == {Str(math), Str(Math), Str(mathPadded), Str(Art), Str(Bio)}
InvalidSubjects == {Str(<<>>), Str(<<" ">>), Undefined, Null, Num(5), Bool(TRUE)}

\* req.body.score: finite numbers in [0, 100], and the rest
ValidScores == {Num(0), Num(85), Num(100)}
InvalidScores ==
    {Num(-1), Num(101), NaN, PosInf, NegInf, Undefined, Null,
     Str(<<"8", "5">>), Bool(TRUE)}

\* the student the grade requests are about, as addStudent stored it
GradedStudent == 1
GradedStudentId == AutoStudentId(0)

Teacher == Principal("teacher", NoStudentId)
Admin == Principal("admin", NoStudentId)
Anonymous == Principal("anonymous", NoStudentId)
GradedStudentPrincipal == Principal("student", GradedStudentId)

\* the requests of the specifications below are served whole, one after the
\* other: no call is in flight between two steps, and the version key of
\* the documents is not followed
NoCalls == <<>>

NoVersions == <<>>

\* one request to a grade route
GradeRequest(p, id, subject, score, fault) ==
    [p |-> p, id |-> id, subject |-> subject, score |-> score, fault |-> fault]

AddOrUpdateGradeRequest(requests) ==
    \E r \in requests :
        /\ AddOrUpdateGrade(r.p, r.id, r.subject, r.score, r.fault)
        /\ UNCHANGED <<calls, versions>>

RemoveGradeRequest(requests) ==
    \E r \in requests :
        /\ RemoveGrade(r.p, r.id, r.subject, r.fault)
        /\ UNCHANGED <<calls, versions>>

GetStudentGradesRequest(requests) ==
    \E r \in requests :
        /\ GetStudentGrades(r.p, r.id, r.fault)
        /\ UNCHANGED <<calls, versions>>

DeletePath(p, id, fault) == [p |-> p, id |-> id, fault |-> fault]

BulkBody(p, isArray, studentIds, findThrows, enrollmentThrows, deleteThrows) ==
    [p |-> p, isArray |-> isArray, studentIds |-> studentIds,
     findThrows |-> findThrows, enrollmentThrows |-> enrollmentThrows,
     deleteThrows |-> deleteThrows]

\* one request to a self-service route
SelfRequest(p, supplied, build, subject, fault) ==
    [p |-> p, supplied |-> supplied, build |-> build, subject |-> subject,
     fault |-> fault]

\* the requests of principals that name no student
OwnRequests(principals) ==
    {SelfRequest(p, MalformedId, build, <<>>, fault) :
        p \in principals, build \in AuthBuilds, fault \in {"none", "find"}}

GetMyGradesRequest(requests) ==
    \E r \in requests :
        /\ GetMyGrades(r.p, r.supplied, r.build, r.fault)
        /\ UNCHANGED <<calls, versions>>

GetMyGradeBySubjectRequest(requests) ==
    \E r \in requests :
        /\ GetMyGradeBySubject(r.p, r.supplied, r.build, r.subject, r.fault)
        /\ UNCHANGED <<calls, versions>>

GetMyAcademicSummaryRequest(requests) ==
    \E r \in requests :
        /\ GetMyAcademicSummary(r.p, r.supplied, r.build, r.fault)
        /\ UNCHANGED <<calls, versions>>

\* the state after addStudent created one student
InitGrades ==
    /\ students = [o \in {GradedStudent} |->
                      [studentId |-> GradedStudentId, grades |-> <<>>]]
    /\ enrollments = {}
    /\ nextOid = GradedStudent + 1
    /\ last = NoRequest
    /\ calls = NoCalls
    /\ versions = NoVersions

(***************************************************************************)
(* SpecGrades: a teacher maintains the grades of one student, the student  *)
(* reads them.                                                             *)
(***************************************************************************)
\* the scores the teacher enters
GradeScores == {Num(0), Num(85)}

GradeWrites ==
    {GradeRequest(Teacher, GradedStudent, subject, score, "none") :
        subject \in ValidSubjects, score \in GradeScores}
    \cup {GradeRequest(Teacher, GradedStudent, Str(Art), Num(85), "save"),
          GradeRequest(Teacher, MaxOid, Str(Art), Num(85), "none")}

GradeReads ==
    {GradeRequest(Teacher, id, Undefined, Undefined, "none") :
        id \in {GradedStudent, MaxOid}}

NextGrades ==
    \/ AddOrUpdateGradeRequest(GradeWrites)
    \/ RemoveGradeRequest(GradeWrites)
    \/ GetStudentGradesRequest(GradeReads)
    \/ GetMyGradesRequest(OwnRequests({GradedStudentPrincipal}))
    \/ GetMyAcademicSummaryRequest(OwnRequests({GradedStudentPrincipal}))

SpecGrades == InitGrades /\ [][NextGrades]_vars

(***************************************************************************)
(* SpecSummary: a teacher enters scores at the edges of the letter grades, *)
(* the student reads the academic summary.                                 *)
(***************************************************************************)
SummaryScores ==
    {Num(0), Num(59), Num(60), Num(69), Num(70), Num(79), Num(80), Num(89),
     Num(90), Num(100)}

SummaryWrites ==
    {GradeRequest(Teacher, GradedStudent, subject, score, "none") :
        subject \in {Str(math), Str(Art)}, score \in SummaryScores}

NextSummary ==
    \/ AddOrUpdateGradeRequest(SummaryWrites)
    \/ GetMyAcademicSummaryRequest(OwnRequests({GradedStudentPrincipal}))

SpecSummary == InitGrades /\ [][NextSummary]_vars

(***************************************************************************)
(* SpecSelfService: two students are graded by a teacher; every kind of    *)
(* principal calls the self-service routes, naming any student it likes.   *)
(***************************************************************************)
SecondStudent == 2
SecondStudentId == AutoStudentId(1)

\* the state after addStudent created two students
InitTwoStudents ==
    /\ students = [o \in {GradedStudent, SecondStudent} |->
                      [studentId |-> AutoStudentId(o - 1), grades |-> <<>>]]
    /\ enrollments = {}
    /\ nextOid = SecondStudent + 1
    /\ last = NoRequest
    /\ calls = NoCalls
    /\ versions = NoVersions

SecondStudentPrincipal == Principal("student", SecondStudentId)
\* a student token without studentId, and one whose studentId no student has
StudentWithoutClaim == Principal("student", NoStudentId)
StudentOfNoRecord == Principal("student", <<"STU", 0>>)
\* a token with a role that is none of admin, teacher, student; one without role
Guest == Principal("guest", NoStudentId)
NoRole == Principal("undefined", NoStudentId)

Principals ==
    {Admin, Teacher, GradedStudentPrincipal, SecondStudentPrincipal,
     StudentWithoutClaim, StudentOfNoRecord, Guest, NoRole, Anonymous}

TwoStudentsWrites ==
    {GradeRequest(Teacher, id, subject, Num(85), "none") :
        id \in {GradedStudent, SecondStudent}, subject \in {Str(math), Str(Art)}}

SelfServiceRequests ==
    {SelfRequest(p, supplied, build, subject, fault) :
        p \in Principals,
        supplied \in {MalformedId, GradedStudent, SecondStudent},
        build \in AuthBuilds,
        subject \in {math, Math},
        fault \in {"none", "find"}}

NextSelfService ==
    \/ AddOrUpdateGradeRequest(TwoStudentsWrites)
    \/ GetMyGradesRequest(SelfServiceRequests)
    \/ GetMyGradeBySubjectRequest(SelfServiceRequests)
    \/ GetMyAcademicSummaryRequest(SelfServiceRequests)

SpecSelfService == InitTwoStudents /\ [][NextSelfService]_vars

(***************************************************************************)
(* SpecPagination: a teacher pages through a collection of up to sixteen   *)
(* students with every kind of page and limit parameter.                   *)
(***************************************************************************)
\* the students of the pagination test
ListedStudents == 15

\* the state after addStudent created n students
InitListed ==
    /\ \E n \in 0 .. (ListedStudents + 1) :
          students = [o \in 1 .. n |-> [studentId |-> AutoStudentId(o - 1), grades |-> <<>>]]
    /\ enrollments = {}
    /\ nextOid = Len(students) + 1
    /\ last = NoRequest
    /\ calls = NoCalls
    /\ versions = NoVersions

\* req.query.page and req.query.limit: absent, without a number, zero,
\* negative, positive, a number followed or preceded by something else
PageQueries ==
    {Undefined, Str(<<"a", "b", "c">>), Str(<<"0">>), Str(<<"-", "1">>),
     Str(<<"1">>), Str(<<"2">>), Str(<<"3">>), Str(<<"4">>),
     Str(<<"2", "x">>), Str(<<" ", "2">>)}

LimitQueries ==
    {Undefined, Str(<<"a", "b", "c">>), Str(<<"0">>), Str(<<"-", "5">>),
     Str(<<"1">>), Str(<<"5">>), Str(<<"1", "0">>)}

ListQuery(p, queryPage, queryLimit, subject, fault) ==
    [p |-> p, queryPage |-> queryPage, queryLimit |-> queryLimit,
     subject |-> subject, fault |-> fault]

PaginationRequests ==
    {ListQuery(Teacher, queryPage, queryLimit, Undefined, "none") :
        queryPage \in PageQueries, queryLimit \in LimitQueries}
    \cup {ListQuery(p, Str(<<"2">>), Str(<<"5">>), Undefined, "none") :
            p \in {Admin, GradedStudentPrincipal, Anonymous}}
    \cup {ListQuery(Teacher, Str(<<"2">>), Str(<<"5">>), Undefined, "find")}

GetAllStudentsRequest(requests) ==
    \E r \in requests :
        /\ GetAllStudents(r.p, r.queryPage, r.queryLimit, r.fault)
        /\ UNCHANGED <<calls, versions>>

GetGradesSummaryRequest(requests) ==
    \E r \in requests :
        /\ GetGradesSummary(r.p, r.queryPage, r.queryLimit, r.subject,
                            r.fault)
        /\ UNCHANGED <<calls, versions>>

NextPagination ==
    \/ GetAllStudentsRequest(PaginationRequests)
    \/ GetGradesSummaryRequest(PaginationRequests)

SpecPagination == InitListed /\ [][NextPagination]_vars

(***************************************************************************)
(* SpecLists: a teacher grades two students and reads the grades summary   *)
(* with and without a subject filter.                                      *)
(***************************************************************************)
ListsWrites ==
    {GradeRequest(Teacher, id, Str(subject), Num(85), "none") :
        id \in {GradedStudent, SecondStudent}, subject \in {math, Art, Bio}}
    \cup {GradeRequest(Teacher, GradedStudent, Str(subject), Num(0), "none") :
            subject \in {math, Art}}

\* req.query.subject: absent, empty, part of a subject in either case, a
\* subject with surrounding whitespace, whitespace only, part of no subject
SubjectQueries ==
    {Undefined, Str(<<>>), Str(<<"m", "a">>), Str(<<"M", "A">>), Str(<<"t">>),
     Str(<<" ", "m", "a", "t", "h">>), Str(<<"A", "r", "t", " ">>),
     Str(<<" ">>), Str(<<"x">>)}

ListsRequests ==
    {ListQuery(Teacher, Undefined, Undefined, subject, "none") :
        subject \in SubjectQueries}
    \cup {ListQuery(Teacher, Str(<<"2">>), Str(<<"1">>), subject, "none") :
            subject \in {Undefined, Str(<<"t">>)}}
    \cup {ListQuery(GradedStudentPrincipal, Undefined, Undefined, Undefined, "none"),
          ListQuery(Teacher, Undefined, Undefined, Str(<<"t">>), "find")}

NextLists ==
    \/ AddOrUpdateGradeRequest(ListsWrites)
    \/ GetGradesSummaryRequest(ListsRequests)

SpecLists == InitTwoStudents /\ [][NextLists]_vars

(***************************************************************************)
(* SpecAccess: an admin, a teacher, a student and a caller without token   *)
(* call every operation on a collection of two students.                   *)
(***************************************************************************)
AccessPrincipals == {Admin, Teacher, GradedStudentPrincipal, Anonymous}

\* an ObjectId no student has
AbsentStudent == SecondStudent + 1

AccessGradeRequests ==
    {GradeRequest(p, GradedStudent, Str(math), Num(85), "none") : p \in AccessPrincipals}

AccessListRequests ==
    {ListQuery(p, Undefined, Undefined, Undefined, "none") : p \in AccessPrincipals}

AccessPaths ==
    {DeletePath(p, GradedStudent, "none") : p \in AccessPrincipals}
    \cup {DeletePath(Admin, id, "none") : id \in {MalformedId, AbsentStudent}}
    \cup {DeletePath(Admin, GradedStudent, "find")}

GetStudentByIdRequest(requests) ==
    \E r \in requests :
        /\ GetStudentById(r.p, r.id, r.fault)
        /\ UNCHANGED <<calls, versions>>

CheckStudentDeletableRequest(requests) ==
    \E r \in requests :
        /\ CheckStudentDeletable(r.p, r.id, r.fault)
        /\ UNCHANGED <<calls, versions>>

DeleteStudentFrom(requests) ==
    \E r \in requests :
        /\ DeleteStudent(r.p, r.id, r.fault)
        /\ UNCHANGED <<calls, versions>>

UpdateBody(p, id, field, hasValue, fieldsOk, studentId, fault) ==
    [p |-> p, id |-> id, field |-> field, hasValue |-> hasValue,
     fieldsOk |-> fieldsOk, studentId |-> studentId, fault |-> fault]

\* a name for every principal; as the admin a studentId that is free, one
\* that is taken, a field that is refused, and the ways an update fails
UpdateRequests ==
    {UpdateBody(p, GradedStudent, "name", TRUE, TRUE, NoStudentId, "none") :
        p \in AccessPrincipals}
    \cup {UpdateBody(Admin, GradedStudent, "studentId", TRUE, TRUE, studentId, "none") :
            studentId \in {HexStudentId(GradedStudent), SecondStudentId}}
    \cup {UpdateBody(Admin, id, "name", TRUE, TRUE, NoStudentId, "none") :
            id \in {MalformedId, AbsentStudent}}
    \cup {UpdateBody(Admin, GradedStudent, "name", TRUE, TRUE, NoStudentId, fault) :
            fault \in {"find", "save"}}
    \cup {UpdateBody(Admin, GradedStudent, "name", TRUE, FALSE, NoStudentId, "none"),
          UpdateBody(Admin, GradedStudent, "name", FALSE, TRUE, NoStudentId, "none"),
          UpdateBody(Admin, GradedStudent, "", TRUE, TRUE, NoStudentId, "none"),
          UpdateBody(Admin, GradedStudent, "grades", TRUE, TRUE, NoStudentId, "none")}

UpdateStudentRequest(requests) ==
    \E r \in requests :
        /\ r.field \in allowedFields /\ r.hasValue
        /\ UpdateStudent(r.p, r.id, r.fieldsOk, r.studentId, r.fault)
        /\ UNCHANGED <<calls, versions>>

UpdateStudentPartialRequest(requests) ==
    \E r \in requests :
        /\ UpdateStudentPartial(r.p, r.id, r.field, r.hasValue,
                                r.fieldsOk, r.studentId, r.fault)
        /\ UNCHANGED <<calls, versions>>

NextAccess ==
    \/ AddOrUpdateGradeRequest(AccessGradeRequests)
    \/ RemoveGradeRequest(AccessGradeRequests)
    \/ GetStudentGradesRequest(AccessGradeRequests)
    \/ GetGradesSummaryRequest(AccessListRequests)
    \/ GetAllStudentsRequest(AccessListRequests)
    \/ GetStudentByIdRequest(AccessPaths)
    \/ UpdateStudentRequest(UpdateRequests)
    \/ UpdateStudentPartialRequest(UpdateRequests)
    \/ DeleteStudentFrom(AccessPaths)
    \/ CheckStudentDeletableRequest(AccessPaths)

SpecAccess == InitTwoStudents /\ [][NextAccess]_vars

(***************************************************************************)
(* SpecBulk: an admin deletes up to three students in bulk; each student   *)
(* was added with a generated studentId or with one of 24 hex digits, the  *)
(* enrollment service enrolls students and completes enrollments, and the  *)
(* enrollment query and the deletion fail for some candidates.             *)
(***************************************************************************)
BulkCandidates == <<1, 2, 3>>

\* the state after addStudent created the three students
InitThreeStudents ==
    /\ \E generated \in SUBSET {BulkCandidates[i] : i \in DOMAIN BulkCandidates} :
          students = [o \in DOMAIN BulkCandidates |->
                         [studentId |-> IF o \in generated
                                        THEN AutoStudentId(o - 1)
                                        ELSE HexStudentId(o),
                          grades |-> <<>>]]
    /\ enrollments = {}
    /\ nextOid = Len(BulkCandidates) + 1
    /\ last = NoRequest
    /\ calls = NoCalls
    /\ versions = NoVersions

BulkRequests ==
    {BulkBody(Admin, TRUE, BulkCandidates, FALSE, enrollmentThrows, deleteThrows) :
        enrollmentThrows \in {{}, {2}}, deleteThrows \in {{}, {1}, {3}, {1, 2, 3}}}
    \cup {BulkBody(Admin, TRUE, ids, FALSE, {}, {}) :
            ids \in {<<3, 1>>, <<2, 2>>, <<2, MalformedId>>, <<>>}}
    \cup {BulkBody(Admin, TRUE, BulkCandidates, TRUE, {}, {}),
          BulkBody(Admin, FALSE, <<>>, FALSE, {}, {}),
          BulkBody(Teacher, TRUE, BulkCandidates, FALSE, {}, {})}

BulkDeleteStudentsFrom(requests) ==
    \E r \in requests :
        /\ BulkDeleteStudents(r.p, r.isArray, r.studentIds,
                              r.findThrows, r.enrollmentThrows, r.deleteThrows)
        /\ UNCHANGED <<calls, versions>>

\* the enrollment service enrolls the first or the second student and
\* completes enrollments
BulkEnrollmentWritten ==
    \/ \E o \in {1, 2} : EnrollmentSaved(o, "enrolled")
    \/ \E e \in enrollments : EnrollmentStatusChanged(e, "completed")

\* single deletions of the first two students, with and without an
\* enrollment query that throws
BulkPaths ==
    {DeletePath(Admin, o, fault) : o \in {1, 2}, fault \in {"none", "enrollments"}}

NextBulk ==
    \/ BulkDeleteStudentsFrom(BulkRequests)
    \/ DeleteStudentFrom(BulkPaths)
    \/ BulkEnrollmentWritten

SpecBulk == InitThreeStudents /\ [][NextBulk]_vars

(***************************************************************************)
(* SpecValidation: every kind of body, path id and principal reaches       *)
(* addOrUpdateGrade and removeGrade.                                       *)
(***************************************************************************)
ValidationSubjects == {Str(math), Str(mathPadded)} \cup InvalidSubjects
ValidationScores == ValidScores \cup InvalidScores

ValidationRequests ==
    {GradeRequest(Teacher, id, subject, score, "none") :
        id \in {GradedStudent, MaxOid, MalformedId},
        subject \in ValidationSubjects, score \in ValidationScores}
    \cup {GradeRequest(p, GradedStudent, Str(math), score, fault) :
            p \in {Teacher, Admin, Anonymous, GradedStudentPrincipal},
            score \in {Num(85), NaN}, fault \in Faults}

NextValidation ==
    \/ AddOrUpdateGradeRequest(ValidationRequests)
    \/ RemoveGradeRequest(ValidationRequests)

SpecValidation == InitGrades /\ [][NextValidation]_vars

(***************************************************************************)
(* Spec: the life of the Student collection, from the empty database:      *)
(* students are added, graded and deleted one by one or in bulk, while the *)
(* enrollment service writes enrollments.                                  *)
(***************************************************************************)
Init ==
    /\ students = <<>>
    /\ enrollments = {}
    /\ nextOid = 1
    /\ last = NoRequest
    /\ calls = NoCalls
    /\ versions = NoVersions

\* the principal of the student that was added first
FirstStudentPrincipal == Principal("student", AutoStudentId(0))

PathIds == Oids \cup {MalformedId}

\* no student has the email of the body
FreshEmail == MalformedId

StudentBody(p, fieldsOk, emailOwner, studentId, fault) ==
    [p |-> p, fieldsOk |-> fieldsOk, emailOwner |-> emailOwner,
     studentId |-> studentId, fault |-> fault]

\* an admin adds students with and without a studentId; the ways it fails
AddStudentRequests ==
    {StudentBody(Admin, TRUE, FreshEmail, studentId, "none") :
        studentId \in {NoStudentId, HexStudentId(1)}}
    \cup {StudentBody(Admin, FALSE, FreshEmail, NoStudentId, "none"),
          StudentBody(Admin, TRUE, 1, NoStudentId, "none"),
          StudentBody(Admin, TRUE, FreshEmail, NoStudentId, "find"),
          StudentBody(Admin, TRUE, FreshEmail, NoStudentId, "save"),
          StudentBody(Teacher, TRUE, FreshEmail, NoStudentId, "none")}

AddStudentRequest ==
    \E r \in AddStudentRequests :
        /\ AddStudent(r.p, r.fieldsOk, r.emailOwner, r.studentId, r.fault)
        /\ UNCHANGED <<calls, versions>>

\* a teacher's upsert for a student, and the ways a grade request fails
LifecycleGradeRequests ==
    {GradeRequest(Teacher, id, Str(math), Num(85), "none") : id \in PathIds}
    \cup {GradeRequest(Teacher, 1, Str(math), Num(85), fault) : fault \in Faults}
    \cup {GradeRequest(p, 1, Str(math), Num(85), "none") :
            p \in {Anonymous, FirstStudentPrincipal}}
    \cup {GradeRequest(Teacher, 1, subject, Num(85), "none") :
            subject \in {Str(<<" ">>), Undefined}}
    \cup {GradeRequest(Teacher, 1, Str(math), score, "none") :
            score \in {Num(101), NaN, Null}}

DeleteStudentRequests ==
    {DeletePath(Admin, id, "none") : id \in PathIds}
    \cup {DeletePath(Admin, 1, fault) : fault \in DeleteFaults}
    \cup {DeletePath(p, 1, "none") : p \in {Teacher, Anonymous}}

DeleteStudentRequest ==
    \E r \in DeleteStudentRequests :
        /\ DeleteStudent(r.p, r.id, r.fault)
        /\ UNCHANGED <<calls, versions>>

\* checkStudentDeletable has no deletion that could throw
CheckDeletableRequests == {r \in DeleteStudentRequests : r.fault # "delete"}

\* an admin and a teacher look a student up; the ways the lookup fails
LookupRequests ==
    {DeletePath(p, id, "none") : p \in {Admin, Teacher}, id \in PathIds}
    \cup {DeletePath(Teacher, 1, "find"), DeletePath(FirstStudentPrincipal, 1, "none")}

\* req.body.studentIds when it is an array
BulkIds ==
    {<<o>> : o \in PathIds} \cup {<<1, o>> : o \in PathIds} \cup {<<MalformedId, 1>>, <<>>}

BulkDeleteRequests ==
    {BulkBody(Admin, TRUE, ids, FALSE, {}, {}) : ids \in BulkIds}
    \cup {BulkBody(Admin, TRUE, <<1, MaxOid>>, FALSE, enrollmentThrows, deleteThrows) :
            enrollmentThrows \in {{}, {1}}, deleteThrows \in {{}, {1}, {MaxOid}}}
    \cup {BulkBody(Admin, TRUE, <<1, MaxOid>>, TRUE, {}, {}),
          BulkBody(Admin, FALSE, <<>>, FALSE, {}, {}),
          BulkBody(Teacher, TRUE, <<1, MaxOid>>, FALSE, {}, {})}

BulkDeleteStudentsRequest ==
    \E r \in BulkDeleteRequests :
        /\ BulkDeleteStudents(r.p, r.isArray, r.studentIds,
                              r.findThrows, r.enrollmentThrows, r.deleteThrows)
        /\ UNCHANGED <<calls, versions>>

\* the enrollment service enrolls the first student and changes the status
EnrollmentWritten ==
    \/ \E status \in {"enrolled", "completed"} : EnrollmentSaved(1, status)
    \/ \E e \in enrollments, status \in {"enrolled", "completed"} :
            EnrollmentStatusChanged(e, status)

Next ==
    \/ AddStudentRequest
    \/ AddOrUpdateGradeRequest(LifecycleGradeRequests)
    \/ RemoveGradeRequest(LifecycleGradeRequests)
    \/ DeleteStudentRequest
    \/ CheckStudentDeletableRequest(CheckDeletableRequests)
    \/ GetStudentByIdRequest(LookupRequests)
    \/ BulkDeleteStudentsRequest
    \/ EnrollmentWritten

Spec == Init /\ [][Next]_vars

(***************************************************************************)
(* SpecCalls: two calls of the grade routes and a deletion are in flight   *)
(* for the same student while the enrollment service enrolls that student. *)
(***************************************************************************)
\* the call of the first teacher: an upsert of math
FirstCalls == {Call("addOrUpdateGrade", GradedStudent, math, Num(85))}

\* the call of the second teacher: an upsert or a removal of another subject
SecondCalls ==
    {Call("addOrUpdateGrade", GradedStudent, Art, Num(90)),
     Call("addOrUpdateGrade", GradedStudent, Bio, Num(100)),
     Call("removeGrade", GradedStudent, Art, Undefined)}

\* the call of the admin
DeletionCalls == {Call(op, GradedStudent, <<>>, Undefined) : op \in DeletionOps}

\* the grades the student has when the calls arrive
GradesBefore ==
    {<<>>, <<Grade(math, Num(70))>>, <<Grade(math, Num(70)), Grade(Art, Num(60))>>}

\* one student, with a generated studentId or one that reads as an ObjectId
InitCalls ==
    /\ \E studentId \in {GradedStudentId, HexStudentId(GradedStudent)},
          grades \in GradesBefore :
          students = [o \in {GradedStudent} |->
                         [studentId |-> studentId, grades |-> grades]]
    /\ enrollments = {}
    /\ nextOid = GradedStudent + 1
    /\ last = NoRequest
    /\ \E a \in FirstCalls, b \in SecondCalls, d \in DeletionCalls :
          calls = [c \in {"a", "b", "d"} |->
                      IF c = "a" THEN a ELSE IF c = "b" THEN b ELSE d]
    /\ versions = [o \in {GradedStudent} |-> 0]

NextCalls ==
    \/ \E c \in DOMAIN calls : FindById(c)
    \/ \E c \in DOMAIN calls : SaveGrades(c)
    \/ \E c \in DOMAIN calls : CheckEnrollments(c)
    \/ \E c \in DOMAIN calls : FindByIdAndDelete(c)
    \/ EnrollmentSaved(GradedStudent, "enrolled")

SpecCalls == InitCalls /\ [][NextCalls]_vars

(***************************************************************************)
(* Vocabulary of the properties.                                           *)
(***************************************************************************)
\* the key subjects are compared by: trimmed and case-folded
SubjectKey(cs) == ToLowerCase(Trim(cs))

\* t is cs without its leading and trailing whitespace, in its original case
IsTrimmedFormOf(t, cs) ==
    \E a \in 0 .. Len(cs) :
        /\ a + Len(t) <= Len(cs)
        /\ \A i \in 1 .. a : cs[i] \in Whitespace
        /\ \A i \in (a + Len(t) + 1) .. Len(cs) : cs[i] \in Whitespace
        /\ \A i \in 1 .. Len(t) : t[i] = cs[a + i]
        /\ t # <<>> => (t[1] \notin Whitespace /\ t[Len(t)] \notin Whitespace)

\* the positions of the records of a grade list that match a subject
Matches(grades, cs) ==
    {i \in DOMAIN grades : SubjectKey(grades[i].subject) = SubjectKey(cs)}

\* a grade list as a multiset of (subject, score) pairs
Multiset(grades) ==
    [g \in {grades[i] : i \in DOMAIN grades} |->
        Cardinality({i \in DOMAIN grades : grades[i] = g})]

\* the input addOrUpdateGrade is specified to accept
AcceptableGradeInput(subject, score) ==
    /\ score.t = "finite" /\ 0 <= score.n /\ score.n <= 100
    /\ subject.t = "string"
    /\ \E i \in DOMAIN subject.s : subject.s[i] \notin Whitespace

\* a request that passed the route's authorization
Authorized(r) == r.role \in {"admin", "teacher"}

\* the request was served without a persistence failure
Served(r, op) == r.op = op /\ r.status = 200

GradesOf(o) == students[o].grades

(***************************************************************************)
(* C1: starting from a student without grades, after any sequence of       *)
(* addOrUpdateGrade and removeGrade calls no two records of a student have *)
(* subjects that are equal after trimming and case-folding.                *)
(***************************************************************************)
C1_OneRecordPerSubject ==
    \A o \in DOMAIN students :
        \A i, j \in DOMAIN GradesOf(o) :
            i # j => SubjectKey(GradesOf(o)[i].subject) # SubjectKey(GradesOf(o)[j].subject)

\* " math " was sent while "Math" is stored next to another record
C1_Witness ==
    /\ Served(last, "addOrUpdateGrade")
    /\ last.subject = Str(mathPadded)
    /\ Len(GradesOf(GradedStudent)) >= 2
    /\ \E i \in DOMAIN GradesOf(GradedStudent) : GradesOf(GradedStudent)[i].subject = Math

(***************************************************************************)
(* C2: an addOrUpdateGrade with valid input whose subject matches a stored *)
(* record keeps the length and the order of the list, changes only the     *)
(* score of the matching record (to the new score) and reports 'updated'.  *)
(***************************************************************************)
C2_UpdateInPlace ==
    [][(/\ Served(last', "addOrUpdateGrade")
        /\ Matches(GradesOf(last'.id), last'.subject.s) # {})
       => LET old == GradesOf(last'.id)
              new == students'[last'.id].grades
          IN  /\ Len(new) = Len(old)
              /\ \A i \in DOMAIN old :
                    /\ new[i].subject = old[i].subject
                    /\ i \in Matches(old, last'.subject.s) => new[i].score = last'.score
                    /\ i \notin Matches(old, last'.subject.s) => new[i] = old[i]
              /\ last'.action = "updated"
              /\ \A o \in DOMAIN students \ {last'.id} : students'[o] = students[o]]_vars

\* the first of several records was updated through a differently written subject
C2_Witness ==
    /\ Served(last, "addOrUpdateGrade")
    /\ last.action = "updated"
    /\ Len(GradesOf(last.id)) >= 2
    /\ 1 \in Matches(GradesOf(last.id), last.subject.s)
    /\ GradesOf(last.id)[1].subject # last.subject.s
    /\ GradesOf(last.id)[1].score = last.score
    /\ last.read[1].score # last.score

(***************************************************************************)
(* C3: an addOrUpdateGrade with valid input whose subject matches no       *)
(* stored record appends exactly one record {subject trimmed but in its    *)
(* original case, score} at the end of the list, leaves the earlier        *)
(* records as they were and reports 'added'.                               *)
(***************************************************************************)
C3_AppendNew ==
    [][(/\ Served(last', "addOrUpdateGrade")
        /\ Matches(GradesOf(last'.id), last'.subject.s) = {})
       => LET old == GradesOf(last'.id)
              new == students'[last'.id].grades
          IN  /\ Len(new) = Len(old) + 1
              /\ \A i \in DOMAIN old : new[i] = old[i]
              /\ IsTrimmedFormOf(new[Len(new)].subject, last'.subject.s)
              /\ new[Len(new)].score = last'.score
              /\ last'.action = "added"]_vars

\* " math " was appended as "math" behind other records
C3_Witness ==
    /\ Served(last, "addOrUpdateGrade")
    /\ last.action = "added"
    /\ last.subject = Str(mathPadded)
    /\ Len(GradesOf(last.id)) >= 2
    /\ GradesOf(last.id)[Len(GradesOf(last.id))] = Grade(math, last.score)

(***************************************************************************)
(* C4: addOrUpdateGrade accepts an input only if score is a finite number  *)
(* in [0, 100] and subject is a string that is non-empty after trimming;   *)
(* every other input is rejected with a validation failure (status 400).   *)
(***************************************************************************)
C4_InvalidInputRejected ==
    (last.op = "addOrUpdateGrade" /\ Authorized(last))
    => /\ last.status = 200 => AcceptableGradeInput(last.subject, last.score)
       /\ ~AcceptableGradeInput(last.subject, last.score) => last.status = 400

\* the operations that read one student and write it back or delete it
SingleEntityOps == {"addOrUpdateGrade", "removeGrade", "deleteStudent"}

\* a response that reports a validation or an authorization failure, or a
\* storage error of a single-entity operation
ReportsFailure(r) ==
    /\ r.op \in SingleEntityOps \cup {"bulkDeleteStudents"}
    /\ \/ r.status \in {400, 401, 403}
       \/ r.op \in SingleEntityOps /\ r.status = 500

\* the body of a bulk deletion names a malformed id
NamesMalformedId(r) ==
    r.op = "bulkDeleteStudents" /\ \E i \in DOMAIN r.ids : ~IsValidObjectId(r.ids[i])

(***************************************************************************)
(* C5: a call of addOrUpdateGrade, removeGrade, deleteStudent or           *)
(* bulkDeleteStudents that ends in a validation failure (400), an          *)
(* authorization failure (401, 403) or, for the three single-entity        *)
(* operations, a storage error (500) leaves the set of students and every  *)
(* student's grades as they were before the call; a bulkDeleteStudents     *)
(* whose body names a malformed id deletes no student.                     *)
(***************************************************************************)
C5_FailuresLeaveStoreUnchanged ==
    [][(last' # last /\ (ReportsFailure(last') \/ NamesMalformedId(last')))
          => students' = students]_vars

\* a bulk deletion naming a stored, deletable student with grades and a
\* malformed id was rejected, and the student is still stored with its grades
C5_Witness ==
    /\ last.op = "bulkDeleteStudents" /\ last.role = "admin"
    /\ last.ids = <<1, MalformedId>>
    /\ last.status = 400
    /\ 1 \in DOMAIN students
    /\ students[1].studentId = HexStudentId(1)
    /\ students[1].grades # <<>>
    /\ enrollments = {}

(***************************************************************************)
(* C6: removeGrade with a valid subject that matches no record of the      *)
(* (existing) student fails with 404 NotFound, reports the student's       *)
(* subjects in list order and leaves the stored grades unchanged.          *)
(***************************************************************************)
C6_RemoveUnknownSubject ==
    [][(/\ last'.op = "removeGrade"
        /\ Authorized(last')
        /\ last'.fault = "none"
        /\ last'.subject.t = "string"
        /\ \E i \in DOMAIN last'.subject.s : last'.subject.s[i] \notin Whitespace
        /\ last'.id \in DOMAIN students
        /\ Matches(GradesOf(last'.id), last'.subject.s) = {})
       => /\ last'.status = 404
          /\ last'.error = "Grade not found for the specified subject"
          /\ Len(last'.available) = Len(GradesOf(last'.id))
          /\ \A i \in DOMAIN GradesOf(last'.id) :
                last'.available[i] = GradesOf(last'.id)[i].subject
          /\ students' = students]_vars

\* a subject was not found among two or more, one of them written with a capital
C6_Witness ==
    /\ last.op = "removeGrade"
    /\ last.status = 404
    /\ Len(last.available) >= 2
    /\ last.available = Subjects(GradesOf(last.id))
    /\ \E i \in DOMAIN last.available : last.available[i] = Math

(***************************************************************************)
(* C7: upsert idempotence: a second addOrUpdateGrade(s, v) right after a   *)
(* first one leaves the grades as the first one left them and reports      *)
(* 'updated'.                                                              *)
(***************************************************************************)
C7_UpsertIdempotent ==
    [][(/\ Served(last, "addOrUpdateGrade")
        /\ Served(last', "addOrUpdateGrade")
        /\ last'.id = last.id
        /\ last'.subject = last.subject
        /\ last'.score = last.score)
       => /\ students' = students
          /\ last'.action = "updated"]_vars

\* an upsert of " math " found the list already as it leaves it
C7_Witness ==
    /\ Served(last, "addOrUpdateGrade")
    /\ last.action = "updated"
    /\ last.subject = Str(mathPadded)
    /\ last.read = GradesOf(last.id)
    /\ Len(last.read) >= 2

(***************************************************************************)
(* C8 as claimed: addOrUpdateGrade("math", x) followed by                  *)
(* addOrUpdateGrade("Math", y) results in exactly one record for that      *)
(* subject, labeled "Math", with score y.                                  *)
(***************************************************************************)
C8_LabelledMath ==
    [][(/\ Served(last, "addOrUpdateGrade") /\ last.subject = Str(math)
        /\ Served(last', "addOrUpdateGrade") /\ last'.subject = Str(Math)
        /\ last'.id = last.id)
       => LET new == students'[last'.id].grades
          IN  /\ Cardinality(Matches(new, Math)) = 1
              /\ \A i \in Matches(new, Math) :
                    new[i].subject = Math /\ new[i].score = last'.score]_vars

(***************************************************************************)
(* C8 as amended: addOrUpdateGrade("math", x) followed by                  *)
(* addOrUpdateGrade("Math", y) results in exactly one record for that      *)
(* subject, with score y; the record keeps the label it had after the      *)
(* first call, which is "math" when the first call added it.               *)
(***************************************************************************)
C8_OneRecordLabelKept ==
    [][(/\ Served(last, "addOrUpdateGrade") /\ last.subject = Str(math)
        /\ Served(last', "addOrUpdateGrade") /\ last'.subject = Str(Math)
        /\ last'.id = last.id)
       => LET old == GradesOf(last.id)
              new == students'[last'.id].grades
          IN  /\ Cardinality(Matches(new, Math)) = 1
              /\ Matches(new, Math) = Matches(old, Math)
              /\ \A i \in Matches(new, Math) :
                    /\ new[i].score = last'.score
                    /\ new[i].subject = old[i].subject
                    /\ last.action = "added" => new[i].subject = math]_vars

\* "Math" overwrote the score of the record that is stored as "math"
C8_Witness ==
    /\ Served(last, "addOrUpdateGrade")
    /\ last.subject = Str(Math)
    /\ last.action = "updated"
    /\ \E i \in DOMAIN GradesOf(last.id) :
          /\ GradesOf(last.id)[i] = Grade(math, last.score)
          /\ last.read[i].score # last.score

(***************************************************************************)
(* C9 as claimed: for every grade list G, removeGrade(s) after             *)
(* addOrUpdateGrade(s, v) on G yields a list equal to G as a multiset of   *)
(* (subject, score) pairs.                                                 *)
(***************************************************************************)
C9_RoundTrip ==
    [][(/\ Served(last, "addOrUpdateGrade")
        /\ Served(last', "removeGrade")
        /\ last'.id = last.id
        /\ last'.subject = last.subject)
       => Multiset(students'[last'.id].grades) = Multiset(last.read)]_vars

(***************************************************************************)
(* C9 as amended: for every grade list G without a record matching s,      *)
(* removeGrade(s) after addOrUpdateGrade(s, v) on G yields a list equal to *)
(* G as a multiset; when G has a record matching s, the result is G        *)
(* without that record.                                                    *)
(***************************************************************************)
C9_RoundTripOfNewSubject ==
    [][(/\ Served(last, "addOrUpdateGrade")
        /\ Served(last', "removeGrade")
        /\ last'.id = last.id
        /\ last'.subject = last.subject)
       => LET G == last.read
              new == students'[last'.id].grades
          IN  /\ Matches(G, last.subject.s) = {} => Multiset(new) = Multiset(G)
              /\ Matches(G, last.subject.s) # {} =>
                    /\ Len(new) = Len(G) - 1
                    /\ Matches(new, last.subject.s) = {}
                    /\ \A i \in DOMAIN G :
                          i \notin Matches(G, last.subject.s) =>
                              Multiset(new)[G[i]] = Multiset(G)[G[i]]]_vars

\* the record that was appended last was removed again, others remain
C9_Witness ==
    /\ Served(last, "removeGrade")
    /\ Len(last.read) >= 2
    /\ last.removed = <<last.read[Len(last.read)]>>
    /\ GradesOf(last.id) = SubSeq(last.read, 1, Len(last.read) - 1)

(***************************************************************************)
(* C10: getStudentGrades, getMyGrades and getMyAcademicSummary report      *)
(* averageGrade = null when the student has no grades, and otherwise the   *)
(* arithmetic mean of the scores rounded to 2 decimal places.              *)
(***************************************************************************)
Abs(x) == IF x < 0 THEN 0 - x ELSE x

RECURSIVE TotalScore(_, _)
TotalScore(grades, n) ==
    IF n = 0 THEN 0 ELSE TotalScore(grades, n - 1) + grades[n].score.n

\* h hundredths is a nearest multiple of 0.01 to total / count
IsMeanRoundedTo2Places(h, total, count) == 2 * Abs(h * count - 100 * total) <= count

C10_AverageGrade ==
    (/\ last.op \in {"getStudentGrades", "getMyGrades", "getMyAcademicSummary"}
     /\ last.status = 200)
    => LET G == GradesOf(last.id)
       IN  /\ G = <<>> => last.average.isNull
           /\ G # <<>> =>
                /\ ~last.average.isNull
                /\ IsMeanRoundedTo2Places(last.average.hundredths,
                                          TotalScore(G, Len(G)), Len(G))

\* the summary of three grades whose mean has no exact 2-place form
C10_Witness ==
    /\ Served(last, "getMyAcademicSummary")
    /\ Len(GradesOf(last.id)) = 3
    /\ ~last.average.isNull
    /\ last.average.hundredths * 3 # 100 * TotalScore(GradesOf(last.id), 3)

\* the positions of a grade list that hold its highest, its lowest score
MaxPositions(grades) ==
    {i \in DOMAIN grades : \A j \in DOMAIN grades : grades[j].score.n <= grades[i].score.n}

MinPositions(grades) ==
    {i \in DOMAIN grades : \A j \in DOMAIN grades : grades[j].score.n >= grades[i].score.n}

\* the first of a non-empty set of positions
First(positions) == CHOOSE i \in positions : \A j \in positions : i <= j

(***************************************************************************)
(* C11: in the academic summary highestGrade is the first record (in list  *)
(* order) among those with the maximum score and lowestGrade the first     *)
(* record among those with the minimum score; both are null when the       *)
(* student has no grades.                                                  *)
(***************************************************************************)
C11_FirstOfTies ==
    Served(last, "getMyAcademicSummary")
    => IF last.grades = <<>>
       THEN last.highestGrade = NullGrade /\ last.lowestGrade = NullGrade
       ELSE /\ last.highestGrade = <<last.grades[First(MaxPositions(last.grades))]>>
            /\ last.lowestGrade = <<last.grades[First(MinPositions(last.grades))]>>

(***************************************************************************)
(* C12: in the academic summary every grade record is counted in exactly   *)
(* one bucket, chosen by its score: A for 90..100, B for [80, 90), C for   *)
(* [70, 80), D for [60, 70), F below 60; the buckets add up to the number  *)
(* of grade records.                                                       *)
(***************************************************************************)
C12_GradeDistribution ==
    Served(last, "getMyAcademicSummary")
    => LET Count(lo, hi) ==
               Cardinality({i \in DOMAIN last.grades :
                               lo <= last.grades[i].score.n /\ last.grades[i].score.n < hi})
           d == last.gradeDistribution
       IN  /\ d["A"] = Count(90, 101)
           /\ d["B"] = Count(80, 90)
           /\ d["C"] = Count(70, 80)
           /\ d["D"] = Count(60, 70)
           /\ d["F"] = Count(0, 60)
           /\ d["A"] + d["B"] + d["C"] + d["D"] + d["F"] = Len(last.grades)

\* a summary of a 90 and an 89: one A and one B
C12_Witness ==
    /\ Served(last, "getMyAcademicSummary")
    /\ Len(last.grades) = 2
    /\ last.grades[1].score.n = 90 /\ last.grades[2].score.n = 89
    /\ last.gradeDistribution["A"] = 1 /\ last.gradeDistribution["B"] = 1

SelfServiceOps == {"getMyGrades", "getMyGradeBySubject", "getMyAcademicSummary"}

\* the grade records of a self-service response are those of the record o
ReturnsRecordOf(r, o, docs) ==
    /\ r.id = o
    /\ IF r.op = "getMyGradeBySubject"
       THEN \E i \in DOMAIN docs[o].grades : r.grades = <<docs[o].grades[i]>>
       ELSE r.grades = docs[o].grades

(***************************************************************************)
(* C13: a self-service request of a student principal returns the record of*)
(* the student whose studentId is the principal's claim and of no other    *)
(* student, and two requests of the same principal that differ only in the *)
(* student id they supply receive the same record.                         *)
(***************************************************************************)
C13_SelfServiceScoping ==
    [][/\ (last'.op \in SelfServiceOps /\ last'.status = 200)
            => /\ last'.role = "student"
               /\ \E o \in DOMAIN students' :
                     /\ students'[o].studentId = last'.claim
                     /\ ReturnsRecordOf(last', o, students')
               /\ \A o \in DOMAIN students' :
                     students'[o].studentId # last'.claim => last'.id # o
       /\ (/\ last.op \in SelfServiceOps /\ last'.op = last.op
           /\ last.status = 200 /\ last'.status = 200
           /\ last'.claim = last.claim /\ last'.subject = last.subject
           /\ last'.supplied # last.supplied)
            => /\ last'.id = last.id
               /\ last'.grades = last.grades
               /\ last'.average = last.average]_vars

\* the first student named the second one, whose grades differ, and got its own
C13_Witness ==
    /\ Served(last, "getMyGrades")
    /\ last.claim = GradedStudentId
    /\ last.supplied = SecondStudent
    /\ last.id = GradedStudent
    /\ last.grades = GradesOf(GradedStudent)
    /\ GradesOf(GradedStudent) # <<>>
    /\ GradesOf(SecondStudent) # <<>>
    /\ GradesOf(SecondStudent) # GradesOf(GradedStudent)

\* the errors of the two outcomes
ForbiddenErrors ==
    {"Access denied. Student privileges required.",
     "Access denied. Student role required."}

MissingClaimErrors ==
    {"Student ID not found in authentication token",
     "Access denied. Valid student ID required."}

\* the response carries no student record
NoRecordReturned(r) ==
    /\ r.id = MalformedId
    /\ r.grades = <<>> /\ r.average = NullAverage
    /\ r.highestGrade = NullGrade /\ r.lowestGrade = NullGrade

(***************************************************************************)
(* C14: a self-service request of a principal without role, or with a role *)
(* that is none of admin, teacher, student, fails as Forbidden (403); one  *)
(* of a student principal without studentId fails with the distinct        *)
(* outcome MissingClaim; in both cases no student record is looked up      *)
(* (a failing lookup is not noticed) or returned.                          *)
(***************************************************************************)
C14_ForbiddenAndMissingClaim ==
    last.op \in SelfServiceOps
    => /\ last.role \notin {"admin", "teacher", "student", "anonymous"}
            => /\ last.status = 403
               /\ last.error \in ForbiddenErrors
               /\ NoRecordReturned(last)
       /\ (last.role = "student" /\ last.claim = NoStudentId)
            => /\ last.status \in {400, 403}
               /\ last.error \in MissingClaimErrors
               /\ last.error \notin ForbiddenErrors
               /\ NoRecordReturned(last)

\* a student token without studentId was turned away although the request
\* named a stored student and the lookup would have failed
C14_Witness ==
    /\ last.op = "getMyAcademicSummary"
    /\ last.role = "student" /\ last.claim = NoStudentId
    /\ last.supplied = GradedStudent
    /\ last.fault = "find"
    /\ last.status = 400
    /\ GradesOf(GradedStudent) # <<>>

ListOps == {"getAllStudents", "getGradesSummary"}

(***************************************************************************)
(* C16: a list response of getAllStudents or getGradesSummary for the      *)
(* effective page p and limit l over totalCount students reports           *)
(* totalPages = ceil(totalCount / l), hasNextPage = (p < totalPages) and   *)
(* hasPreviousPage = (p > 1); totalCount is the number of students when    *)
(* there is no filter.                                                     *)
(***************************************************************************)
C16_Pagination ==
    (last.op \in ListOps /\ last.status = 200)
    => /\ IF last.limit > 0
          THEN /\ last.totalPages * last.limit >= last.totalStudents
               /\ (last.totalPages - 1) * last.limit < last.totalStudents
          ELSE /\ last.totalPages * last.limit <= last.totalStudents
               /\ (last.totalPages - 1) * last.limit > last.totalStudents
       /\ last.hasNextPage <=> (last.page < last.totalPages)
       /\ last.hasPreviousPage <=> (last.page > 1)
       /\ last.querySubject = Undefined
            => last.totalStudents = Cardinality(DOMAIN students)

\* page 2 of fifteen students, five to a page
C16_Witness ==
    /\ Served(last, "getAllStudents")
    /\ last.totalStudents = ListedStudents
    /\ last.page = 2 /\ last.limit = 5
    /\ last.totalPages = 3
    /\ last.hasNextPage /\ last.hasPreviousPage
    /\ Len(last.listed) = 5

\* a query parameter without a digit, or none
NonNumeric(q) == q.t # "string" \/ \A i \in DOMAIN q.s : ~IsDigit(q.s[i])

(***************************************************************************)
(* C17: for every page and limit query input getAllStudents and            *)
(* getGradesSummary use an effective page >= 1 and an effective limit >= 1,*)
(* page = 1 and limit = 10 when the input is absent or non-numeric, and    *)
(* the operation does not fail because of the pagination input.            *)
(***************************************************************************)
C17_EffectivePageAndLimit ==
    (last.op \in ListOps /\ Authorized(last) /\ last.fault = "none")
    => /\ last.page >= 1 /\ last.limit >= 1
       /\ NonNumeric(last.queryPage) => last.page = 1
       /\ NonNumeric(last.queryLimit) => last.limit = 10
       /\ last.status = 200

\* the subject contains f, letters compared without regard to case
ContainsIgnoringCase(subject, f) ==
    \E a \in 0 .. (Len(subject) - Len(f)) :
        \A i \in 1 .. Len(f) : ToLowerCase(subject)[a + i] = ToLowerCase(f)[i]

\* the grade records of a list, in order, whose subject contains f
RecordsContaining(grades, f) ==
    SelectSeq(grades, LAMBDA g : ContainsIgnoringCase(g.subject, f))

ListedIds(r) == {r.listed[i].id : i \in DOMAIN r.listed}

\* the response holds the whole result, not one page of several
WholeResult(r) == r.page = 1 /\ r.limit >= Cardinality(DOMAIN students)

(***************************************************************************)
(* C18: getGradesSummary with a subject filter f returns for each listed   *)
(* student exactly the grade records whose subject contains the trimmed f  *)
(* case-insensitively and lists only (and, on a page that holds the whole  *)
(* result, all) students with at least one such record; without a filter   *)
(* every student is listed with its full grade list.                       *)
(***************************************************************************)
C18_SubjectFilter ==
    Served(last, "getGradesSummary")
    => LET f == last.querySubject
           filtered == f.t = "string" /\ f.s # <<>>
           Wanted(o) == IF filtered
                        THEN RecordsContaining(students[o].grades, Trim(f.s))
                        ELSE students[o].grades
       IN  /\ \A i \in DOMAIN last.listed :
                /\ last.listed[i].grades = Wanted(last.listed[i].id)
                /\ filtered => Wanted(last.listed[i].id) # <<>>
           /\ WholeResult(last)
                => ListedIds(last) =
                     {o \in DOMAIN students : filtered => Wanted(o) # <<>>}

\* the same for filters that have no surrounding whitespace
C18_TrimmedFilters ==
    (last.querySubject.t = "string" => Trim(last.querySubject.s) = last.querySubject.s)
    => C18_SubjectFilter

GradeAndReadOps ==
    {"addOrUpdateGrade", "removeGrade", "getStudentGrades", "getGradesSummary",
     "getAllStudents", "getStudentById"}

UpdateAndDeletionOps == {"updateStudent", "updateStudentPartial", "deleteStudent"}

\* the request got past authentication and authorization
PassedAuthorization(r) == r.status \notin {401, 403}

\* the request was rejected as Forbidden
RejectedAsForbidden(r) == r.status = 403

(***************************************************************************)
(* C15 as stated: admin and teacher both pass authorization for grade      *)
(* upsert, grade removal, grade reads, student list/get and student        *)
(* update/deletion; the student role is rejected as Forbidden by each.     *)
(***************************************************************************)
C15_AdminAndTeacherPassAll ==
    last.op \in GradeAndReadOps \cup UpdateAndDeletionOps
    => /\ last.role \in {"admin", "teacher"} => PassedAuthorization(last)
       /\ last.role = "student" => RejectedAsForbidden(last)

(***************************************************************************)
(* C15 amended: an admin passes authorization for every one of these       *)
(* operations; a teacher passes it for grade upsert, grade removal, grade  *)
(* reads and student list/get and is rejected as Forbidden by student      *)
(* update and deletion; the student role is rejected as Forbidden by each. *)
(***************************************************************************)
C15_UpdateAndDeletionAdminOnly ==
    /\ last.op \in GradeAndReadOps \cup UpdateAndDeletionOps
        => /\ last.role = "admin" => PassedAuthorization(last)
           /\ last.role = "student" => RejectedAsForbidden(last)
    /\ last.op \in GradeAndReadOps
        => (last.role = "teacher" => PassedAuthorization(last))
    /\ last.op \in UpdateAndDeletionOps
        => (last.role = "teacher" => RejectedAsForbidden(last))

\* a teacher's deletion of an existing student was refused
C15_Witness ==
    /\ last.op = "deleteStudent"
    /\ last.role = "teacher"
    /\ RejectedAsForbidden(last)
    /\ last.id \in DOMAIN students

ActiveStatus == {"active", "enrolled", "in_progress"}

\* the handler's step of a request, as opposed to a write of the enrollment
\* service
Handled(op) == last' # last /\ last'.op = op

\* at least one Enrollment of student o has an active status
HasActiveEnrollment(o) ==
    \E e \in enrollments : e.studentId = o /\ e.status \in ActiveStatus

\* the guard's report as the response of the request shows it
ReportedNotDeletable(r) ==
    IF r.op = "deleteStudent" THEN r.status = 409 ELSE ~r.isDeletable

(***************************************************************************)
(* C19: when the enrollment lookup itself is not failing, the deletion     *)
(* guard, as deleteStudent and checkStudentDeletable use it, reports a     *)
(* student as not deletable exactly when at least one Enrollment of that   *)
(* student has status active, enrolled or in_progress; a student without   *)
(* such an enrollment is deletable.                                        *)
(***************************************************************************)
C19_DeletableIffNoActiveEnrollment ==
    [][(/\ Handled("deleteStudent") \/ Handled("checkStudentDeletable")
        /\ last'.role = "admin"
        /\ last'.fault = "none"
        /\ last'.status \in {200, 409})
       => (ReportedNotDeletable(last') <=> HasActiveEnrollment(last'.id))]_vars

\* deleteStudent by an admin on an existing student, no findById or
\* findByIdAndDelete failing
DeletionOfExisting ==
    /\ Handled("deleteStudent")
    /\ last'.role = "admin"
    /\ last'.id \in DOMAIN students
    /\ last'.fault \notin {"find", "delete"}

GuardReport(o, queryThrows) ==
    CheckActiveEnrollments(o, students[o].studentId, queryThrows)

\* a lookup by id that passed authorization and had no persistence failure
LookupOf(o) ==
    /\ last' # last
    /\ last'.op \in {"getStudentById", "checkStudentDeletable", "deleteStudent"}
    /\ last'.id = o
    /\ PassedAuthorization(last')
    /\ last'.fault = "none"

(***************************************************************************)
(* C20: deleteStudent by an admin on an existing student: if the guard     *)
(* reports a blocking enrollment the call fails with 409, the response     *)
(* carries the enrollments the guard reported and the student with its     *)
(* grades stays stored; otherwise the student document is removed, the     *)
(* other documents stay, and from then on the id is never stored again and *)
(* every lookup of it answers 404.                                         *)
(***************************************************************************)
C20_BlockedOrRemoved ==
    [][/\ DeletionOfExisting
          => LET report == GuardReport(last'.id, last'.fault = "enrollments")
             IN  IF report.hasActive
                 THEN /\ last'.status = 409
                      /\ last'.activeEnrollments = report.enrollments
                      /\ students' = students
                 ELSE /\ last'.status = 200
                      /\ DOMAIN students' = DOMAIN students \ {last'.id}
                      /\ \A o \in DOMAIN students' : students'[o] = students[o]
       /\ \A o \in 1 .. (nextOid - 1) :
            o \notin DOMAIN students
            => /\ o \notin DOMAIN students'
               /\ LookupOf(o) => last'.status = 404]_vars

\* a student that was deleted is looked up and not found
C20_Witness ==
    /\ last.op = "getStudentById"
    /\ last.status = 404
    /\ last.id \in 1 .. (nextOid - 1)
    /\ last.id \notin DOMAIN students

\* a deletion was refused and the response carries an enrolled enrollment
C20_BlockedWitness ==
    /\ last.op = "deleteStudent"
    /\ last.status = 409
    /\ \E e \in last.activeEnrollments : e.status = "enrolled"
    /\ last.id \in DOMAIN students

\* the elements of a list
Members(list) == {list[i] : i \in DOMAIN list}

\* the response of a bulk deletion whose loop over the found students ran
BulkReported == Handled("bulkDeleteStudents") /\ last'.error = ""

\* the students find returned for the requested ids
FoundFor(r) == Members(r.ids) \cap DOMAIN students

(***************************************************************************)
(* C21: after bulkDeleteStudents every student found for the requested ids *)
(* is in exactly one of the lists successful, blockedByEnrollments and     *)
(* failed, so that their lengths add up to the number found, and a found   *)
(* student is absent from the store afterwards iff it is in successful.    *)
(***************************************************************************)
C21_BulkPartition ==
    [][BulkReported
       => LET r == last'
              deleted == Members(r.successful)
              blocked == Members(r.blockedByEnrollments)
              failed == Members(r.failed)
          IN  /\ deleted \cup blocked \cup failed = FoundFor(r)
              /\ deleted \cap blocked = {}
              /\ deleted \cap failed = {}
              /\ blocked \cap failed = {}
              /\ Len(r.successful) + Len(r.blockedByEnrollments) + Len(r.failed)
                   = Cardinality(FoundFor(r))
              /\ \A o \in FoundFor(r) :
                    o \notin DOMAIN students' <=> o \in deleted]_vars

\* a bulk deletion with a student in each of the three lists
C21_Witness ==
    /\ last.op = "bulkDeleteStudents"
    /\ Len(last.successful) = 1
    /\ Len(last.blockedByEnrollments) = 1
    /\ Len(last.failed) = 1
    /\ Members(last.successful) \cap DOMAIN students = {}
    /\ Members(last.blockedByEnrollments) \cup Members(last.failed) \subseteq DOMAIN students

(***************************************************************************)
(* C22: bulkDeleteStudents reports full success (200) when every found     *)
(* student was deleted, partial success (207) when at least one was        *)
(* deleted and at least one was blocked or failed, and total failure (409  *)
(* or 500) when none was deleted; the students it lists as deleted are     *)
(* gone from the store whatever happened to the others.                    *)
(***************************************************************************)
C22_TriState ==
    [][BulkReported
       => LET r == last'
              deleted == Len(r.successful)
              others == Len(r.blockedByEnrollments) + Len(r.failed)
          IN  /\ r.status = 200 <=> (deleted > 0 /\ others = 0)
              /\ r.status = 207 <=> (deleted > 0 /\ others > 0)
              /\ r.status \in {409, 500} <=> deleted = 0
              /\ r.status \in {200, 207, 409, 500}
              /\ Members(r.successful) \cap DOMAIN students' = {}]_vars

\* three candidates, one blocked and two deleted: partial success
C22_Witness ==
    /\ last.op = "bulkDeleteStudents"
    /\ Len(last.ids) = 3
    /\ Len(last.successful) = 2
    /\ Len(last.blockedByEnrollments) = 1
    /\ Len(last.failed) = 0
    /\ last.status = 207
    /\ \E e \in enrollments :
          e.studentId = last.blockedByEnrollments[1] /\ e.status = "enrolled"
    /\ Members(last.successful) \cap DOMAIN students = {}

\* a bulk deletion by an admin for valid ids of which some are found, with
\* a find that returns
BulkOfFound ==
    /\ Handled("bulkDeleteStudents")
    /\ last'.role = "admin"
    /\ last'.fault = "none"
    /\ last'.ids # <<>>
    /\ \A i \in DOMAIN last'.ids : IsValidObjectId(last'.ids[i])
    /\ FoundFor(last') # {}

(***************************************************************************)
(* C23: in bulkDeleteStudents the outcome of every found candidate depends *)
(* on that candidate alone: it is blocked iff the guard blocks it, failed  *)
(* iff the guard lets it pass and its deletion throws, deleted iff the     *)
(* guard lets it pass and its deletion returns, whatever happened to the   *)
(* candidates before it; and the operation ends with a report over all     *)
(* found candidates.                                                       *)
(***************************************************************************)
C23_CandidatesIndependent ==
    [][BulkOfFound
       => LET r == last'
          IN  /\ r.error = ""
              /\ r.status \in {200, 207, 409, 500}
              /\ Len(r.successful) + Len(r.blockedByEnrollments) + Len(r.failed)
                   = Cardinality(FoundFor(r))
              /\ \A o \in FoundFor(r) :
                    LET blocks == GuardReport(o, o \in r.enrollmentThrows).hasActive
                        throws == o \in r.deleteThrows
                    IN  /\ o \in Members(r.blockedByEnrollments) <=> blocks
                        /\ o \in Members(r.failed) <=> (~blocks /\ throws)
                        /\ o \in Members(r.successful) <=> (~blocks /\ ~throws)
                        /\ o \notin DOMAIN students' <=> (~blocks /\ ~throws)]_vars

\* the deletion of the first candidate threw, the second was blocked, and
\* the third was deleted all the same
C23_Witness ==
    /\ last.op = "bulkDeleteStudents"
    /\ last.failed = <<1>>
    /\ last.blockedByEnrollments = <<2>>
    /\ last.successful = <<3>>
    /\ 3 \notin DOMAIN students

(***************************************************************************)
(* C24: fail closed.  When the enrollment lookup for a student fails,      *)
(* deleteStudent answers 409 with the synthetic entry 'Could not verify    *)
(* enrollment status' and bulkDeleteStudents lists the student under       *)
(* blockedByEnrollments; in both cases the student stays stored.           *)
(***************************************************************************)
C24_FailClosed ==
    [][/\ (/\ Handled("deleteStudent")
           /\ last'.role = "admin"
           /\ last'.fault = "enrollments"
           /\ last'.id \in DOMAIN students)
          => /\ last'.status = 409
             /\ last'.activeEnrollments = {CouldNotVerify}
             /\ students' = students
       /\ BulkOfFound
          => \A o \in FoundFor(last') \cap last'.enrollmentThrows :
                /\ o \in Members(last'.blockedByEnrollments)
                /\ o \in DOMAIN students'
                /\ students'[o] = students[o]]_vars

\* the lookup failed for a student that has no active enrollment and whose
\* studentId the query accepts; the deletion was refused
C24_Witness ==
    /\ last.op = "deleteStudent"
    /\ last.fault = "enrollments"
    /\ last.status = 409
    /\ last.activeEnrollments = {CouldNotVerify}
    /\ last.id \in DOMAIN students
    /\ CastsToObjectId(students[last.id].studentId)
    /\ ~HasActiveEnrollment(last.id)

\* the same in a bulk deletion
C24_BulkWitness ==
    /\ last.op = "bulkDeleteStudents"
    /\ last.enrollmentThrows = {2}
    /\ 2 \in Members(last.blockedByEnrollments)
    /\ CastsToObjectId(students[2].studentId)
    /\ ~HasActiveEnrollment(2)

(***************************************************************************)
(* C26: for every student that getGradesSummary lists, the averageGrade of *)
(* the entry is the averageGrade that getStudentGrades reports for that    *)
(* student in the same state, also for a list whose scores are all 0; the  *)
(* summary's averageGrade is null only for a student without grades.       *)
(***************************************************************************)
C26_SummaryAverage ==
    Served(last, "getGradesSummary")
    => \A i \in DOMAIN last.listed :
          LET entry == last.listed[i]
          IN  /\ entry.average = StudentGradesAverage(students[entry.id].grades)
              /\ entry.average = NullAverage => students[entry.id].grades = <<>>

\* the number of entries page p holds when total entries are listed l to a page
PageLength(total, p, l) ==
    LET left == total - (p - 1) * l
    IN  IF left <= 0 THEN 0 ELSE IF left < l THEN left ELSE l

(***************************************************************************)
(* C27: in getGradesSummary totalStudents counts exactly the students the  *)
(* request's filter selects for listing, for every subject input (absent,  *)
(* empty and whitespace-only included): every page holds the entries that  *)
(* are its share of totalStudents, so the pages 1..totalPages together     *)
(* hold exactly totalStudents students.                                    *)
(***************************************************************************)
C27_TotalCountsListed ==
    (Served(last, "getGradesSummary") /\ last.page >= 1 /\ last.limit >= 1)
    => Len(last.listed) = PageLength(last.totalStudents, last.page, last.limit)

\* the creation of a student whose body supplies no studentId, accepted up
\* to the save
CreationWithoutStudentId ==
    /\ Handled("addStudent")
    /\ last'.status = 201 \/ last'.error = "Duplicate studentId"
    /\ last'.status = 201 => last'.studentId[1] = "STU"

Stores(c) ==
    /\ calls[c].id \in DOMAIN students
    /\ \E i \in DOMAIN students[calls[c].id].grades :
          LET g == students[calls[c].id].grades[i]
          IN  /\ ToLowerCase(g.subject) = ToLowerCase(Trim(calls[c].subject))
              /\ g.score = calls[c].score

\* the document call c loaded holds the write of upsert call other
LoadedWriteOf(c, other) ==
    \E i \in DOMAIN calls[c].grades :
        /\ ToLowerCase(calls[c].grades[i].subject) =
               ToLowerCase(Trim(calls[other].subject))
        /\ calls[c].grades[i].score = calls[other].score

\* both teachers upserted, for different subjects, and both were answered
\* with success
BothUpsertsSucceeded ==
    /\ \A c \in {"a", "b"} :
          /\ calls[c].op = "addOrUpdateGrade"
          /\ calls[c].pc = "responded"
          /\ calls[c].status = 200
    /\ ToLowerCase(Trim(calls["a"].subject)) # ToLowerCase(Trim(calls["b"].subject))

\* each of the two read the student before the other saved
ReadBeforeEitherSaved == ~LoadedWriteOf("a", "b") /\ ~LoadedWriteOf("b", "a")

\* C25, as it is stated: two concurrent addOrUpdateGrade calls for different
\* subjects that read the student before either saved and both report
\* success leave only one of the two writes in the stored grades
C25_LostUpdate ==
    (BothUpsertsSucceeded /\ ReadBeforeEitherSaved /\ GradedStudent \in DOMAIN students)
        => ~(Stores("a") /\ Stores("b"))

\* C25, amended: when two addOrUpdateGrade calls for different subjects on
\* the same student both report success, the stored grades hold both
\* writes, whatever the order of their reads and saves
C25_BothWritesStored ==
    (BothUpsertsSucceeded /\ GradedStudent \in DOMAIN students)
        => (Stores("a") /\ Stores("b"))

\* both calls read before either saved, both succeeded, both writes are stored
C25_Witness ==
    /\ BothUpsertsSucceeded /\ ReadBeforeEitherSaved
    /\ Stores("a") /\ Stores("b")

\* C28: a student is never removed while an enrollment with an active
\* status exists for it at the moment of the removal
C28_NoActiveEnrollmentAtRemoval ==
    [][\A o \in DOMAIN students \ DOMAIN students' : ~HasActiveEnrollment(o)]_vars

\* the save of a grade call that loaded its student before a deletion
\* removed it
SavesAfterRemoval(c) ==
    /\ calls[c].pc = "save"
    /\ calls'[c].pc = "responded"
    /\ calls[c].id \notin DOMAIN students

\* C30: a removed student never exists in the store again; a grade call that
\* read the student before the deletion and saves after it does not
\* re-create the document and does not report success
C30_RemovedForGood ==
    [][/\ DOMAIN students' \subseteq DOMAIN students
       /\ \A c \in DOMAIN calls :
             SavesAfterRemoval(c) =>
                 /\ calls'[c].status # 200
                 /\ calls[c].id \notin DOMAIN students']_vars

\* the deletion removed the student, the upsert that had read it before
\* saved after it and was answered 500; the other teacher's call has not run
C30_Witness ==
    /\ GradedStudent \notin DOMAIN students
    /\ calls["d"].pc = "responded" /\ calls["d"].action = "deleted"
    /\ calls["a"].pc = "responded" /\ calls["a"].status = 500
    /\ calls["b"].pc = "findById"

\* the same for a removal of a grade, the first teacher's call not run
C30_RemoveGradeWitness ==
    /\ GradedStudent \notin DOMAIN students
    /\ calls["d"].pc = "responded" /\ calls["d"].action = "deleted"
    /\ calls["b"].op = "removeGrade"
    /\ calls["b"].pc = "responded" /\ calls["b"].status = 500
    /\ calls["a"].pc = "findById"

====
